---- MODULE Spec2Model ----
(***************************************************************************)
(* Model of the MangaBuff orchestration loop (src/main.py) and of the      *)
(* card replacement manager (src/card_replacement.py).                     *)
(*                                                                         *)
(* and of the card selector (src/card_selector.py).                        *)
(*                                                                         *)
(* Six specifications share the variables of this module:                  *)
(*   SpecPolicy  the pure replacement policy should_replace_card, applied  *)
(*               to owner / wanter counts drawn from a bounded range;      *)
(*   Spec        the application: start-up, the processing loop, the       *)
(*               replacement calls, the sleep mode, the server and the     *)
(*               background boost poller;                                  *)
(*   SpecNorm    normalize_wanters and the priority comparison on demands  *)
(*               drawn from a bounded range;                               *)
(*   SpecSelect  a CardSelector: select_best_card calls, one probe a step, *)
(*               with lock and mark-used operations between the calls;     *)
(*   SpecFlush   one select_best_card call on a larger inventory;          *)
(*   SpecGuard   check_and_refresh_session, called on an application that  *)
(*               is set up, with a session that is live or not.            *)
(***************************************************************************)
EXTENDS Integers, Sequences, FiniteSets, TLC

VARIABLES
    \* ---- replacement policy harness (SpecPolicy) ----
    p_pc,               \* "input" | "done" | "off"
    p_card,             \* the boost_card dict handed to should_replace_card
    p_verdict,          \* what should_replace_card returned
    \* ---- application state (Spec), MangaBuffApp fields ----
    pc,                 \* position of the primary thread
    args,               \* argparse.Namespace: dry_run, enable_monitor, skip_inventory
    session,            \* self.session: 0 is None, n > 0 the n-th login's session
    stats_manager,      \* self.stats_manager: session it was built with, 0 is None
    history_monitor,    \* self.history_monitor
    monitor,            \* self.monitor
    processor,          \* self.processor
    failed_cycles_count,
    \* ---- locals of run_processing_mode / load_boost_card ----
    boost_card,         \* the card run() loaded: the default of the loop
    current_boost_card,
    new_card,
    current_card_id,
    lb_card,            \* load_boost_card's local boost_card
    total,              \* result of process_owners_page_by_page
    ticks,              \* polls done by wait_for_boost_or_timeout
    lctx,               \* who called load_boost_card
    \* ---- frame of a replacement call (CardReplacementManager) ----
    rkind,              \* "policy" (perform_replacement) | "forced" (force_replace_card)
    rctx,               \* who called: "load" | "cycle" | "force"
    old_card,           \* the boost_card argument of the call
    \* ---- the world ----
    file,               \* BOOST_CARD_FILE on disk
    server,             \* card, donate, replace
    authed,             \* sessions holding the mangabuff_session cookie
    \* ---- history variables ----
    callLog,            \* server-facing steps of the current replacement call
    sleepLog,           \* steps of the current sleep_until_reset call
    lastEvent,          \* what the step just taken was
    incsSinceForced,    \* increments of the counter since the last forced attempt
    offerTarget,        \* card_id the last offer loop ran against
    policyNew,          \* ids (new, old) of this iteration's policy replacement
    deadIssue,          \* an offer or replacement was issued on a logged-out session
    orphans,            \* sessions of running boost pollers self.monitor lost
    guard,              \* the check_and_refresh_session call: state before, path
    \* ---- normalisation harness (SpecNorm) ----
    n_pc,               \* "input" | "done" | "off"
    n_in,               \* demands x, y and a target t
    n_out,              \* what the code computes of them
    \* ---- card selector (SpecSelect), CardSelector fields ----
    s_pc,               \* "idle" | "unparsed" | "cont" | "parsed" | "ret" | "off"
    locked_cards,       \* self.locked_cards (the trade manager's set)
    used_cards,         \* self.used_cards
    cards_parsed_count, \* self.cards_parsed_count
    \* ---- the inventory manager's stores ----
    inventory,          \* instance ids in the unparsed inventory store
    parsed_disk,        \* the parsed inventory as saved: card id -> entry
    \* ---- locals of select_best_card / select_from_unparsed ----
    parsed_inventory,   \* the parsed inventory loaded by the call
    available_cards,
    target_wanters,
    exclude_instances,
    cards_checked,
    best_alternative,
    s_result,           \* what the call returns
    s_phase,            \* the phase that produced it
    \* ---- history variables of the selector ----
    s_probed,           \* candidates taken this call, with the outcome of each
    s_calls,            \* select_best_card calls made
    \* ---- MonthlyDailyRotatingHandler (SpecLog) ----
    today,              \* the calendar date datetime.now() gives
    baseFilename,       \* path of the log file the handler holds
    stream,             \* the file object the handler writes to, or NoStream
    written,            \* records that reached each log file
    dropped,            \* records that reached no file
    emitted             \* emit calls made

policyVars == <<p_pc, p_card, p_verdict>>

appVars == <<pc, args, session, stats_manager, history_monitor, monitor,
             processor, failed_cycles_count, boost_card, current_boost_card,
             new_card, current_card_id, lb_card, total, ticks, lctx, rkind,
             rctx, old_card, file, server, authed, callLog, sleepLog,
             lastEvent, incsSinceForced, offerTarget, policyNew, deadIssue>>

normVars == <<n_pc, n_in, n_out>>

selVars == <<s_pc, locked_cards, used_cards, cards_parsed_count, inventory,
             parsed_disk, parsed_inventory, available_cards, target_wanters,
             exclude_instances, cards_checked, best_alternative, s_result,
             s_phase, s_probed, s_calls>>

logVars == <<today, baseFilename, stream, written, dropped, emitted>>

harnessVars == <<policyVars, normVars, selVars, guard, logVars>>

vars == <<policyVars, appVars, orphans, guard, normVars, selVars, logVars>>

(***************************************************************************)
(* Bounds of the model.                                                    *)
(***************************************************************************)
MaxOwnersIn  == 545     \* owner counts tried on the policy: -MinIn .. MaxOwnersIn
MaxWantersIn == 305     \* wanter counts tried on the policy
MinIn        == 2       \* how far below zero the counts go
NumCards     == 2       \* card ids on the server: 1 .. NumCards
MaxDonate    == 1       \* daily donation quota
MaxReplace   == 1       \* daily replacement quota
MaxLogins    == 3       \* logins in a run (sleeps = MaxLogins - 1)
MaxTotal     == 1       \* owners one offer loop can process
WaitPolls    == 1       \* polls of the completion wait before the timeout

(***************************************************************************)
(* Cards.  A boost card is the dict get_boost_card_info returns; None is   *)
(* NoCard.                                                                 *)
(***************************************************************************)
NoCard == [card_id |-> 0, owners_count |-> 0, wanters_count |-> 0]

Card(id, o, w) == [card_id |-> id, owners_count |-> o, wanters_count |-> w]

(***************************************************************************)
(* CardReplacementManager.should_replace_card                              *)
(***************************************************************************)
should_replace_card_off_by_one(card) ==
    LET owners_count  == card.owners_count
        wanters_count == card.wanters_count
    IN  IF owners_count <= 0 THEN FALSE
        ELSE IF 0 < owners_count /\ owners_count < 108 THEN TRUE
        ELSE IF 109 <= owners_count /\ owners_count <= 216
             THEN wanters_count > 121
        ELSE IF 217 <= owners_count /\ owners_count <= 360
             THEN wanters_count >= 181
        ELSE IF 361 <= owners_count /\ owners_count <= 540
             THEN wanters_count >= 300
        ELSE FALSE

should_replace_card(card) ==
    LET owners_count  == card.owners_count
        wanters_count == card.wanters_count
    IN  IF owners_count <= 0 THEN FALSE
        ELSE IF 0 < owners_count /\ owners_count <= 108 THEN TRUE
        ELSE IF 109 <= owners_count /\ owners_count <= 216
             THEN wanters_count >= 121
        ELSE IF 217 <= owners_count /\ owners_count <= 360
             THEN wanters_count >= 181
        ELSE IF 361 <= owners_count /\ owners_count <= 540
             THEN wanters_count >= 300
        ELSE FALSE

(***************************************************************************)
(* SpecPolicy: should_replace_card on every pair of counts of the range.   *)
(***************************************************************************)
CountsIn == [owners_count : (0 - MinIn) .. MaxOwnersIn,
             wanters_count : (0 - MinIn) .. MaxWantersIn]

ApplyPolicy ==
    /\ p_pc = "input"
    /\ p_verdict' = should_replace_card(p_card)
    /\ p_pc' = "done"
    /\ UNCHANGED <<p_card, appVars, orphans, guard, normVars, selVars, logVars>>

PolicyIdle ==
    /\ p_pc = "off"
    /\ p_card = NoCard
    /\ p_verdict = FALSE

(***************************************************************************)
(* The application.  Groups of variables for UNCHANGED.                    *)
(***************************************************************************)
collab == <<stats_manager, history_monitor, processor>>
locals == <<boost_card, current_boost_card, new_card, current_card_id,
            lb_card, total, ticks>>
frame  == <<lctx, rkind, rctx, old_card>>
world  == <<file, server, authed>>
ghost  == <<callLog, sleepLog, incsSinceForced, offerTarget, policyNew,
            deadIssue>>

CardIds == 1 .. NumCards

\* The counts a card's page shows: odd ids are cards the policy replaces
\* (band 1), even ids cards it keeps (band 2 with too few wanters).
OwnersOf(id)  == IF id % 2 = 1 THEN 50 ELSE 150
WantersOf(id) == IF id % 2 = 1 THEN 10 ELSE 100

MAX_FAILED_CYCLES == 3

NoSwap == [new |-> 0, old |-> 0]

NoMonitor == [exists |-> FALSE, running |-> FALSE, session |-> 0,
              card_changed |-> FALSE, current_card_id |-> 0]

NoHistory == [exists |-> FALSE, running |-> FALSE, session |-> 0]

NoProcessor == [exists |-> FALSE, session |-> 0, trade_manager |-> FALSE]

\* no check_and_refresh_session call is made or was made
NoGuard == [active |-> FALSE, checked |-> FALSE, path |-> "none", live |-> FALSE,
            session |-> 0, stats_manager |-> 0, history_monitor |-> NoHistory,
            monitor |-> NoMonitor, processor |-> NoProcessor]

Min(a, b) == IF a <= b THEN a ELSE b

\* DailyStatsManager.can_donate(force_refresh=True)
can_donate == server.donate > 0

\* DailyStatsManager.can_replace(force_refresh=True)
stats_can_replace == server.replace > 0

\* boost.get_boost_card_info: the cards the page can yield now
PageCards == {Card(server.card, OwnersOf(server.card), WantersOf(server.card))}


(***************************************************************************)
(* src/logger.py: MonthlyDailyRotatingHandler.  A date is a day number; a  *)
(* log path is the month folder and the file name made from the date.      *)
(***************************************************************************)
NumDays      == 3       \* calendar dates of a run: 1 .. NumDays
DaysPerMonth == 2       \* dates in a month folder
MaxRecords   == 4       \* emit calls of a run

Days == 1 .. NumDays

\* _get_current_log_path: logs/<month>_<year>/<YYYY-MM-DD>.log
LogPath(d) == [folder |-> ((d - 1) \div DaysPerMonth) + 1, name |-> d]

LogPaths == {LogPath(d) : d \in Days}

\* self.stream = None
NoStream == [path |-> LogPath(0), closed |-> FALSE]

\* open(self.baseFilename, 'a')
OpenStream(path) == [path |-> path, closed |-> FALSE]

\* self.stream.close(): the attribute still refers to the file object
CloseStream(st) == IF st = NoStream THEN st ELSE [st EXCEPT !.closed = TRUE]

\* _open when datetime.now() gives date d: the path and the stream it leaves
OpenResult(d, base, st) ==
    LET moved == LogPath(d) # base
        base1 == IF moved THEN LogPath(d) ELSE base
        st1   == IF moved THEN NoStream ELSE st
    IN  [base   |-> base1,
         stream |-> IF st1 = NoStream THEN OpenStream(base1) ELSE st1]

\* the first part of emit, when its datetime.now() gives d1 and the one of
\* the _open it calls, which can be past the next midnight, gives d2
EmitSwitch(d1, d2) ==
    IF LogPath(d1) # baseFilename
    THEN OpenResult(d2, LogPath(d1), CloseStream(stream))
    ELSE [base |-> baseFilename, stream |-> stream]

\* the handler after __init__ on date 1, and no record yet
LogInit ==
    /\ today = 1
    /\ baseFilename = LogPath(1)
    /\ stream = OpenStream(LogPath(1))
    /\ written = [f \in LogPaths |-> 0]
    /\ dropped = 0
    /\ emitted = 0

LogOthers == <<policyVars, appVars, orphans, guard, normVars, selVars>>

\* midnight
Midnight ==
    /\ today < NumDays
    /\ today' = today + 1
    /\ UNCHANGED <<baseFilename, stream, written, dropped, emitted, LogOthers>>

\* emit(record).  `if self.stream:` holds for every file object, closed or
\* not; write on a closed file raises ValueError, which emit hands to
\* handleError, and the record reaches no file.
emit ==
    /\ emitted < MaxRecords
    /\ \E d2 \in (IF LogPath(today) # baseFilename
                  THEN {today, today + 1} \cap Days ELSE {today}) :
         LET sw == EmitSwitch(today, d2)
         IN  /\ today' = d2
             /\ baseFilename' = sw.base
             /\ stream' = sw.stream
             /\ IF sw.stream # NoStream /\ ~sw.stream.closed
                THEN /\ written' = [written EXCEPT ![sw.stream.path] = @ + 1]
                     /\ UNCHANGED dropped
                ELSE /\ dropped' = dropped + 1
                     /\ UNCHANGED written
    /\ emitted' = emitted + 1
    /\ UNCHANGED LogOthers

\* close()
LogClose ==
    /\ stream # NoStream
    /\ stream' = NoStream
    /\ UNCHANGED <<today, baseFilename, written, dropped, emitted, LogOthers>>

AppInit ==
    /\ pc = "setup"
    /\ args \in [dry_run : BOOLEAN, enable_monitor : BOOLEAN,
                 skip_inventory : {FALSE}]
    /\ session = 0
    /\ stats_manager = 0
    /\ history_monitor = NoHistory
    /\ monitor = NoMonitor
    /\ processor = NoProcessor
    /\ failed_cycles_count = 0
    /\ boost_card = NoCard
    /\ current_boost_card = NoCard
    /\ new_card = NoCard
    /\ current_card_id = 0
    /\ lb_card = NoCard
    /\ total = 0
    /\ ticks = 0
    /\ lctx = "none"
    /\ rkind = "none"
    /\ rctx = "none"
    /\ old_card = NoCard
    /\ file = NoCard
    /\ server \in [card : CardIds, donate : {MaxDonate}, replace : {MaxReplace}]
    /\ authed = {}
    /\ callLog = <<>>
    /\ sleepLog = <<>>
    /\ lastEvent = "init"
    /\ incsSinceForced = 0 - 1
    /\ offerTarget = 0
    /\ policyNew = NoSwap
    /\ deadIssue = FALSE
    /\ orphans = {}
    /\ guard = NoGuard
    /\ LogInit

AppIdle ==
    /\ pc = "off"
    /\ args = [dry_run |-> FALSE, enable_monitor |-> FALSE, skip_inventory |-> FALSE]
    /\ session = 0
    /\ stats_manager = 0
    /\ history_monitor = NoHistory
    /\ monitor = NoMonitor
    /\ processor = NoProcessor
    /\ failed_cycles_count = 0
    /\ boost_card = NoCard
    /\ current_boost_card = NoCard
    /\ new_card = NoCard
    /\ current_card_id = 0
    /\ lb_card = NoCard
    /\ total = 0
    /\ ticks = 0
    /\ lctx = "none"
    /\ rkind = "none"
    /\ rctx = "none"
    /\ old_card = NoCard
    /\ file = NoCard
    /\ server = [card |-> 1, donate |-> 0, replace |-> 0]
    /\ authed = {}
    /\ callLog = <<>>
    /\ sleepLog = <<>>
    /\ lastEvent = "init"
    /\ incsSinceForced = 0 - 1
    /\ offerTarget = 0
    /\ policyNew = NoSwap
    /\ deadIssue = FALSE
    /\ orphans = {}
    /\ guard = NoGuard
    /\ LogInit

(***************************************************************************)
(* MangaBuffApp.start_monitoring(card), as the monitor it leaves in        *)
(* self.monitor.  The poller self.monitor referred to before is not        *)
(* stopped by the assignment: when it runs, it keeps running.              *)
(***************************************************************************)
LostPollers == IF monitor.exists /\ monitor.running
               THEN orphans \cup {monitor.session}
               ELSE orphans

start_monitoring(card) ==
    IF args.enable_monitor
    THEN /\ monitor' = [exists |-> TRUE, running |-> TRUE, session |-> session,
                        card_changed |-> FALSE, current_card_id |-> card.card_id]
         /\ orphans' = LostPollers
    ELSE UNCHANGED <<monitor, orphans>>

\* OwnersProcessor(session=self.session, ...): the processors it can build
\* (a processor is taken to hold a trade manager from its construction)
NewProcessors == {[exists |-> TRUE, session |-> session, trade_manager |-> TRUE]}

\* TradeHistoryMonitor(session=self.session, ...).start(): init_history_monitor
NewHistory == [exists |-> TRUE, running |-> TRUE, session |-> session]

\* A call's frame and log once it has returned and its result is consumed;
\* locals are reset where the code no longer reads them.
FrameDone ==
    /\ new_card' = NoCard
    /\ old_card' = NoCard
    /\ rkind' = "none"
    /\ rctx' = "none"
    /\ callLog' = <<>>

(***************************************************************************)
(* run(): setup (the login) and the managers.                              *)
(***************************************************************************)
Setup ==
    /\ pc = "setup"
    /\ \/ /\ session' = 1
          /\ authed' = authed \cup {1}
          /\ pc' = "init"
       \/ /\ pc' = "exit"
          /\ UNCHANGED <<session, authed>>
    /\ lastEvent' = "setup"
    /\ UNCHANGED <<args, collab, monitor, failed_cycles_count, locals, frame,
                   file, server, ghost, orphans, harnessVars>>

InitManagers ==
    /\ pc = "init"
    /\ stats_manager' = session
    /\ history_monitor' = IF args.skip_inventory THEN history_monitor ELSE NewHistory
    /\ pc' = "lb_fetch"
    /\ lctx' = "startup"
    /\ lastEvent' = "init_managers"
    /\ UNCHANGED <<args, session, processor, monitor, failed_cycles_count, locals,
                   rkind, rctx, old_card, world, ghost, orphans, harnessVars>>

(***************************************************************************)
(* load_boost_card: fetch the card, then check_and_replace_if_needed.      *)
(***************************************************************************)
LoadFetch ==
    /\ pc = "lb_fetch"
    /\ \/ \E c \in PageCards :
            /\ session \in authed
            /\ lb_card' = c
            /\ old_card' = c
            /\ rkind' = "policy"
            /\ rctx' = "load"
            /\ pc' = "r_policy"
            /\ UNCHANGED new_card
       \/ /\ lb_card' = NoCard
          /\ new_card' = NoCard
          /\ rctx' = "load"
          /\ pc' = "r_ret"
          /\ UNCHANGED <<old_card, rkind>>
    /\ callLog' = <<>>
    /\ lastEvent' = "load_fetch"
    /\ UNCHANGED <<args, session, collab, monitor, failed_cycles_count, boost_card,
                   current_boost_card, current_card_id, total, ticks, lctx, world,
                   sleepLog, incsSinceForced, offerTarget, policyNew, deadIssue,
                   orphans, harnessVars>>

\* what load_boost_card returns, given lb_card and the replacement's result
LoadResult == IF lb_card = NoCard THEN NoCard
              ELSE IF new_card # NoCard THEN new_card ELSE lb_card

\* a save made before the replacement check: the fetched card is written
LoadSaveFetched == IF lb_card = NoCard THEN file ELSE lb_card

\* save_json(BOOST_CARD_FILE, boost_card), reached only with a card
LoadSave == IF LoadResult = NoCard THEN file ELSE LoadResult

\* run_processing_mode(boost_card): the card is the default that
\* _load_current_boost_card falls back to when BOOST_CARD_FILE is missing.
\* load_boost_card has just written the file and nothing removes it, so the
\* default is kept only while there is no file.
LoopDefault == IF LoadSave # NoCard THEN NoCard ELSE LoadResult

LoadDoneStartup ==
    /\ pc = "r_ret" /\ rctx = "load" /\ lctx = "startup"
    /\ file' = LoadSave
    /\ IF LoadResult = NoCard
       THEN /\ pc' = "exit"
            /\ UNCHANGED <<boost_card, monitor, orphans, processor>>
       ELSE /\ boost_card' = LoopDefault
            /\ start_monitoring(LoadResult)
            /\ processor' \in NewProcessors
            /\ pc' = "loop_top"
    /\ lastEvent' = "load_done"
    /\ FrameDone
    /\ lb_card' = NoCard
    /\ lctx' = "none"
    /\ UNCHANGED <<args, session, stats_manager, history_monitor,
                   failed_cycles_count, current_boost_card,
                   current_card_id, total, ticks, server, authed,
                   sleepLog, incsSinceForced, offerTarget, policyNew, deadIssue,
                   harnessVars>>

\* where recreate_all_objects returns to with its verdict: the sleep, or
\* check_and_refresh_session, which returns the verdict as its own
RecreateReturn(ok) ==
    IF guard.active THEN (IF ok THEN "g_true" ELSE "g_false")
    ELSE (IF ok THEN "sl_done" ELSE "after_loop")

LoadDoneRecreate ==
    /\ pc = "r_ret" /\ rctx = "load" /\ lctx = "recreate"
    /\ file' = LoadSave
    /\ IF LoadResult = NoCard
       THEN UNCHANGED <<monitor, orphans>>
       ELSE start_monitoring(LoadResult)
    /\ pc' = RecreateReturn(TRUE)
    /\ lastEvent' = "load_done"
    /\ FrameDone
    /\ lb_card' = NoCard
    /\ lctx' = "none"
    /\ UNCHANGED <<args, session, collab, failed_cycles_count, boost_card,
                   current_boost_card, current_card_id, total, ticks,
                   server, authed, sleepLog, incsSinceForced, offerTarget,
                   policyNew, deadIssue, harnessVars>>

LoadDoneWake ==
    /\ pc = "r_ret" /\ rctx = "load" /\ lctx = "wake"
    /\ file' = LoadSave
    /\ IF LoadResult = NoCard
       THEN /\ pc' = "after_loop"
            /\ lastEvent' = "load_done"
            /\ UNCHANGED <<current_boost_card, monitor, orphans,
                           failed_cycles_count>>
       ELSE /\ current_boost_card' = LoadResult
            /\ start_monitoring(LoadResult)
            /\ failed_cycles_count' = 0
            /\ pc' = "loop_top"
            /\ lastEvent' = "wake"
    /\ FrameDone
    /\ lb_card' = NoCard
    /\ lctx' = "none"
    /\ sleepLog' = <<>>
    /\ UNCHANGED <<args, session, collab, boost_card, current_card_id,
                   total, ticks, server, authed, incsSinceForced, offerTarget,
                   policyNew, deadIssue, harnessVars>>

(***************************************************************************)
(* CardReplacementManager.perform_replacement (rkind = "policy") and       *)
(* force_replace_card (rkind = "forced"): the same steps, but for the      *)
(* policy check that only perform_replacement makes.  Each step is one     *)
(* request to the server; the result is left in new_card at pc = "r_ret".  *)
(***************************************************************************)
RUnchanged == <<args, session, collab, monitor, failed_cycles_count, boost_card,
                current_boost_card, current_card_id, lb_card, total, ticks,
                frame, file, authed, sleepLog,
                incsSinceForced, offerTarget, policyNew, orphans, harnessVars>>

\* if not self.should_replace_card(boost_card): return None
RPolicy ==
    /\ pc = "r_policy"
    /\ lastEvent' = "replacing"
    /\ callLog' = Append(callLog, "policy")
    /\ IF should_replace_card(old_card)
       THEN pc' = "r_can" /\ UNCHANGED new_card
       ELSE pc' = "r_ret" /\ new_card' = NoCard
    /\ UNCHANGED <<RUnchanged, server, deadIssue>>

\* the step after a quota check: go on when quota is left, else return None
QuotaGateSkipped(next) ==
    /\ callLog' = Append(callLog, IF stats_can_replace THEN "quota_ok" ELSE "quota_no")
    /\ pc' = next
    /\ UNCHANGED new_card

QuotaGate(next) ==
    IF stats_can_replace
    THEN /\ callLog' = Append(callLog, "quota_ok")
         /\ pc' = next
         /\ UNCHANGED new_card
    ELSE /\ callLog' = Append(callLog, "quota_no")
         /\ pc' = "r_ret"
         /\ new_card' = NoCard

\* if not self.can_replace(): return None
RCan ==
    /\ pc = "r_can"
    /\ lastEvent' = "replacing"
    /\ QuotaGate("r_cancel")
    /\ UNCHANGED <<RUnchanged, server, deadIssue>>

\* The offers a cancel or an offer loop touches are not part of the state:
\* cancel_all_sent_trades and the sending of offers are recorded as events.
\* cancel_all_sent_trades(self.session, debug=False); time.sleep(1)
CancelStepSkipped == callLog

CancelStep == Append(callLog, "cancel")

RCancel ==
    /\ pc = "r_cancel"
    /\ lastEvent' = "replacing"
    /\ callLog' = CancelStep
    /\ pc' = "r_recheck"
    /\ UNCHANGED <<RUnchanged, server, new_card, deadIssue>>

\* if not self.stats_manager.can_replace(force_refresh=True): return None
RRecheck ==
    /\ pc = "r_recheck"
    /\ lastEvent' = "replacing"
    /\ QuotaGate("r_replace")
    /\ UNCHANGED <<RUnchanged, server, deadIssue>>

\* success = replace_club_card(self.session); if not success: return None
\* The server takes the action only with quota left, and may hand back the
\* same card.
RReplace ==
    /\ pc = "r_replace"
    /\ lastEvent' = "replacing"
    /\ deadIssue' = (deadIssue \/ session \notin authed)
    /\ \/ /\ stats_can_replace /\ session \in authed
          /\ \E id \in CardIds :
               server' = [server EXCEPT !.card = id, !.replace = @ - 1]
          /\ callLog' = Append(callLog, "replace_ok")
          /\ pc' = "r_settle"
          /\ UNCHANGED new_card
       \/ /\ callLog' = Append(callLog, "replace_fail")
          /\ pc' = "r_ret"
          /\ new_card' = NoCard
          /\ UNCHANGED server
    /\ UNCHANGED RUnchanged

\* time.sleep(3); self.stats_manager.refresh_stats()
RSettle ==
    /\ pc = "r_settle"
    /\ lastEvent' = "replacing"
    /\ callLog' = callLog \o <<"settle", "refresh">>
    /\ pc' = "r_reload"
    /\ UNCHANGED <<RUnchanged, server, new_card, deadIssue>>

\* if new_card_id != old_card_id: return new_boost_card  else: return None
ReplacementResultAny(old, got) == got

ReplacementResult(old, got) ==
    IF got.card_id # old.card_id THEN got ELSE NoCard

\* new_boost_card = get_boost_card_info(...); if not new_boost_card: return None
RReload ==
    /\ pc = "r_reload"
    /\ lastEvent' = "replacing"
    /\ \/ \E c \in PageCards :
            /\ new_card' = ReplacementResult(old_card, c)
            /\ callLog' = callLog \o <<"reload", "compare">>
       \/ /\ new_card' = NoCard
          /\ callLog' = Append(callLog, "reload")
    /\ pc' = "r_ret"
    /\ UNCHANGED <<RUnchanged, server, deadIssue>>

(***************************************************************************)
(* run_processing_mode: one iteration of `while True`.                     *)
(***************************************************************************)
\* _load_current_boost_card(boost_card): the file, else the default
LoadCurrent == IF file # NoCard THEN file ELSE boost_card

\* if self.failed_cycles_count >= self.MAX_FAILED_CYCLES
ForceDueAlways == TRUE

\* a threshold test that lets one more failed cycle pass
ForceDueLate == failed_cycles_count > MAX_FAILED_CYCLES

ForceDue == failed_cycles_count >= MAX_FAILED_CYCLES

\* the counter after one more failed cycle
Bump(n) == IF n < 0 THEN n ELSE Min(MAX_FAILED_CYCLES, n + 1)

\* The end of an iteration (`continue`): every local of the iteration is
\* assigned again before it is read, so the model forgets it here.
IterationEnd ==
    /\ pc' = "loop_top"
    /\ current_boost_card' = NoCard
    /\ current_card_id' = 0
    /\ total' = 0
    /\ ticks' = 0
    /\ offerTarget' = 0
    /\ policyNew' = NoSwap

\* top of the loop: the donation quota, the reload of the card, the
\* threshold of failed cycles
CycleStart ==
    /\ pc = "loop_top"
    /\ IF ~can_donate
       THEN /\ pc' = "sl_cancel"
            /\ sleepLog' = <<>>
            /\ lastEvent' = "sleep_enter"
            /\ current_boost_card' = NoCard
            /\ current_card_id' = 0
            /\ UNCHANGED <<rkind, rctx, old_card, callLog, policyNew>>
       ELSE /\ current_boost_card' = LoadCurrent
            /\ current_card_id' = LoadCurrent.card_id
            /\ policyNew' = NoSwap
            /\ lastEvent' = "cycle_start"
            /\ callLog' = <<>>
            /\ old_card' = LoadCurrent
            /\ UNCHANGED sleepLog
            /\ IF ForceDue
               THEN /\ pc' = "f_pre"
                    /\ rkind' = "forced"
                    /\ rctx' = "force"
               ELSE /\ pc' = "r_policy"
                    /\ rkind' = "policy"
                    /\ rctx' = "cycle"
    /\ UNCHANGED <<args, session, collab, monitor, failed_cycles_count, boost_card,
                   new_card, lb_card, total, ticks, lctx, world, offerTarget,
                   incsSinceForced, deadIssue, orphans, harnessVars>>

\* attempt_auto_replacement: its own quota check, then force_replace_card
AttemptPre ==
    /\ pc = "f_pre"
    /\ IF stats_can_replace
       THEN pc' = "r_can" /\ UNCHANGED new_card
       ELSE pc' = "r_ret" /\ new_card' = NoCard
    /\ lastEvent' = "replacing"
    /\ incsSinceForced' = 0
    /\ UNCHANGED <<args, session, collab, monitor, failed_cycles_count, boost_card,
                   current_boost_card, current_card_id, lb_card, total, ticks,
                   frame, world, callLog, sleepLog, offerTarget, policyNew,
                   deadIssue, orphans, harnessVars>>

\* the monitor after `self.monitor.current_card_id = current_card_id`
MonitorRetarget(id) ==
    IF monitor.exists THEN [monitor EXCEPT !.current_card_id = id] ELSE monitor

\* self.failed_cycles_count = 0 on the fallback of a failed forced attempt
ForcedFailCounterKept == failed_cycles_count

ForcedFailCounter == 0

\* attempt_auto_replacement's tail and the loop's handling of its result
ForcedReturn ==
    /\ pc = "r_ret" /\ rctx = "force"
    /\ IF new_card # NoCard
       THEN /\ failed_cycles_count' = 0
            /\ current_boost_card' = new_card
            /\ current_card_id' = new_card.card_id
            /\ monitor' = MonitorRetarget(new_card.card_id)
            /\ pc' = "loop_top"
            /\ lastEvent' = "forced_ok"
            /\ rkind' = "none"
            /\ rctx' = "none"
            /\ old_card' = NoCard
            /\ callLog' = <<>>
       ELSE /\ failed_cycles_count' = ForcedFailCounter
            /\ lastEvent' = "forced_fail"
            /\ pc' = "r_policy"
            /\ rkind' = "policy"
            /\ rctx' = "cycle"
            /\ old_card' = current_boost_card
            /\ callLog' = <<>>
            /\ UNCHANGED <<current_boost_card, current_card_id, monitor>>
    /\ new_card' = NoCard
    /\ UNCHANGED <<args, session, collab, boost_card, lb_card, total,
                   ticks, lctx, world, sleepLog, incsSinceForced, offerTarget,
                   policyNew, deadIssue, orphans, harnessVars>>

\* the card id the offer loop gets after a policy replacement
PolicyNewIdStale == current_card_id

PolicyNewId == new_card.card_id

\* self.failed_cycles_count = 0 after a policy replacement
PolicyOkCounterKept == failed_cycles_count

PolicyOkCounter == 0

\* a cycle that goes to the offers without the second quota check
SecondQuotaCheckSkipped == TRUE

\* if not self.stats_manager.can_donate(force_refresh=True): continue
SecondQuotaCheck == can_donate

\* the result of check_and_replace_if_needed in the cycle, the clearing of
\* the monitor's flag and the second donation quota check
PolicyReturn ==
    /\ pc = "r_ret" /\ rctx = "cycle"
    /\ LET card == IF new_card # NoCard THEN new_card ELSE current_boost_card
           id   == IF new_card # NoCard THEN PolicyNewId ELSE current_card_id
           mon  == IF new_card # NoCard THEN MonitorRetarget(id) ELSE monitor
       IN  /\ failed_cycles_count' = IF new_card # NoCard THEN PolicyOkCounter
                                     ELSE failed_cycles_count
           /\ lastEvent' = IF new_card # NoCard THEN "policy_ok" ELSE "policy_none"
           /\ monitor' = IF mon.exists THEN [mon EXCEPT !.card_changed = FALSE]
                         ELSE mon
           /\ IF SecondQuotaCheck
              THEN /\ pc' = "offers"
                   /\ current_boost_card' = card
                   /\ current_card_id' = id
                   /\ policyNew' = IF new_card # NoCard
                                   THEN [new |-> new_card.card_id,
                                         old |-> old_card.card_id]
                                   ELSE NoSwap
                   /\ UNCHANGED <<total, ticks, offerTarget>>
              ELSE IterationEnd
    /\ FrameDone
    /\ UNCHANGED <<args, session, collab, boost_card, lb_card, lctx, world,
                   sleepLog, incsSinceForced, deadIssue, orphans, harnessVars>>

\* process_owners_page_by_page(card_id=str(current_card_id), ...)
OfferLoop ==
    /\ pc = "offers"
    /\ \E t \in 0 .. MaxTotal :
         /\ total' = t
         /\ deadIssue' = (deadIssue \/ (t > 0 /\ session \notin authed))
    /\ offerTarget' = current_card_id
    /\ pc' = "post_offers"
    /\ lastEvent' = "offers"
    /\ UNCHANGED <<args, session, collab, monitor, failed_cycles_count, boost_card,
                   current_boost_card, new_card, current_card_id, lb_card, ticks,
                   frame, file, server, authed, callLog, sleepLog,
                   incsSinceForced, policyNew, orphans, harnessVars>>

\* _should_restart()
should_restart == monitor.exists /\ monitor.running /\ monitor.card_changed

AfterOffersUnchanged == <<args, session, collab, monitor, boost_card,
                          new_card, lb_card, frame, file, authed, callLog,
                          sleepLog, deadIssue, orphans, harnessVars>>

StillInIteration == <<current_boost_card, current_card_id, total, offerTarget,
                      policyNew>>

\* if self._should_restart(): ... continue
PostOffersChanged ==
    /\ pc = "post_offers"
    /\ should_restart
    /\ failed_cycles_count' = 0
    /\ lastEvent' = "changed_after_offers"
    /\ IterationEnd
    /\ UNCHANGED <<AfterOffersUnchanged, server, incsSinceForced>>

\* if self.monitor and self.monitor.is_running() and total > 0: wait
PostOffersWait ==
    /\ pc = "post_offers"
    /\ ~should_restart
    /\ monitor.exists /\ monitor.running /\ total > 0
    /\ ticks' = 0
    /\ lastEvent' = "wait_enter"
    /\ pc' = "wait"
    /\ UNCHANGED <<AfterOffersUnchanged, StillInIteration, server,
                   failed_cycles_count, incsSinceForced>>

\* self.failed_cycles_count += 1 of the cycle that found no owners
ZeroOffersCounterTwice == failed_cycles_count + 2

ZeroOffersCounter == failed_cycles_count + 1

\* if total == 0: self.failed_cycles_count += 1; continue
PostOffersZero ==
    /\ pc = "post_offers"
    /\ ~should_restart
    /\ ~(monitor.exists /\ monitor.running /\ total > 0)
    /\ total = 0
    /\ failed_cycles_count' = ZeroOffersCounter
    /\ incsSinceForced' = Bump(incsSinceForced)
    /\ lastEvent' = "fail_no_owners"
    /\ IterationEnd
    /\ UNCHANGED <<AfterOffersUnchanged, server>>

\* total > 0 and no running monitor: the body of the loop ends
PostOffersFallThrough ==
    /\ pc = "post_offers"
    /\ ~should_restart
    /\ ~(monitor.exists /\ monitor.running /\ total > 0)
    /\ total # 0
    /\ lastEvent' = "cycle_end"
    /\ IterationEnd
    /\ UNCHANGED <<AfterOffersUnchanged, server, failed_cycles_count,
                   incsSinceForced>>

\* wait_for_boost_or_timeout: one pass of its loop
WaitPoll ==
    /\ pc = "wait"
    /\ ticks < WaitPolls
    /\ IF monitor.card_changed
       THEN /\ failed_cycles_count' = 0
            /\ lastEvent' = "changed_in_wait"
            /\ IterationEnd
       ELSE /\ ticks' = ticks + 1
            /\ lastEvent' = "wait_poll"
            /\ UNCHANGED <<pc, failed_cycles_count, StillInIteration>>
    /\ UNCHANGED <<AfterOffersUnchanged, server, incsSinceForced>>

\* the timeout: cancel the offers, count the failed cycle
WaitTimeout ==
    /\ pc = "wait"
    /\ ticks >= WaitPolls
    /\ failed_cycles_count' = failed_cycles_count + 1
    /\ incsSinceForced' = Bump(incsSinceForced)
    /\ lastEvent' = IF args.dry_run THEN "fail_timeout" ELSE "fail_timeout_cancel"
    /\ IterationEnd
    /\ UNCHANGED <<AfterOffersUnchanged, server>>

(***************************************************************************)
(* sleep_until_reset and recreate_all_objects.                             *)
(***************************************************************************)
SleepUnchanged == <<args, boost_card, current_boost_card, new_card,
                    current_card_id, lb_card, total, ticks, rkind, rctx,
                    old_card, file, callLog, incsSinceForced, offerTarget,
                    policyNew, deadIssue, orphans, harnessVars>>

\* if not dry_run and self.processor and self.processor.trade_manager: cancel
SleepCancel ==
    /\ pc = "sl_cancel"
    /\ IF ~args.dry_run /\ processor.exists /\ processor.trade_manager
       THEN sleepLog' = Append(sleepLog, "cancel")
       ELSE UNCHANGED sleepLog
    /\ pc' = "sl_stop"
    /\ lastEvent' = "sleeping"
    /\ UNCHANGED <<SleepUnchanged, session, collab, monitor, failed_cycles_count,
                   lctx, server, authed>>

\* the monitors after the stop block of sleep_until_reset
StoppedMonitorNot == monitor

StoppedMonitor == IF monitor.exists /\ monitor.running THEN NoMonitor ELSE monitor

StoppedHistory == IF history_monitor.exists /\ history_monitor.running
                  THEN NoHistory ELSE history_monitor

\* self.monitor.stop(); self.monitor = None; the same for history_monitor
SleepStop ==
    /\ pc = "sl_stop"
    /\ monitor' = StoppedMonitor
    /\ history_monitor' = StoppedHistory
    /\ sleepLog' = Append(sleepLog, "stop")
    /\ pc' = "sl_logout"
    /\ lastEvent' = "sleeping"
    /\ UNCHANGED <<SleepUnchanged, session, stats_manager, processor,
                   failed_cycles_count, lctx, server, authed>>

\* logout(self.session): the cookies are cleared whatever the request did
SleepLogout ==
    /\ pc = "sl_logout"
    /\ authed' = authed \ {session}
    /\ sleepLog' = Append(sleepLog, "logout")
    /\ pc' = "sl_wait"
    /\ lastEvent' = "sleeping"
    /\ UNCHANGED <<SleepUnchanged, session, collab, monitor, failed_cycles_count,
                   lctx, server>>

\* the wait until the reset of the day: the server's quotas are new after it
SleepWait ==
    /\ pc = "sl_wait"
    /\ session < MaxLogins
    /\ server' = [server EXCEPT !.donate = MaxDonate, !.replace = MaxReplace]
    /\ sleepLog' = Append(sleepLog, "wait")
    /\ pc' = "sl_login"
    /\ lastEvent' = "sleeping"
    /\ UNCHANGED <<SleepUnchanged, session, collab, monitor, failed_cycles_count,
                   lctx, authed>>

\* self.session = login(...); if not self.session: return False  (-> break)
SleepLogin ==
    /\ pc = "sl_login"
    /\ \/ /\ session' = session + 1
          /\ authed' = authed \cup {session + 1}
          /\ sleepLog' = Append(sleepLog, "login")
          /\ pc' = "rc"
       \/ /\ session' = 0
          /\ sleepLog' = Append(sleepLog, "login_failed")
          /\ pc' = "after_loop"
          /\ UNCHANGED authed
    /\ lastEvent' = "sleeping"
    /\ UNCHANGED <<SleepUnchanged, collab, monitor, failed_cycles_count, lctx,
                   server>>

\* recreate_all_objects up to its call of load_boost_card; an exception in
\* it is caught and makes it return False
Recreate ==
    /\ pc = "rc"
    /\ \/ /\ stats_manager' = session
          /\ history_monitor' = IF args.skip_inventory THEN history_monitor
                                ELSE NewHistory
          /\ processor' \in NewProcessors
          /\ IF args.enable_monitor
             THEN /\ monitor' = IF monitor.exists /\ monitor.running
                                THEN [monitor EXCEPT !.running = FALSE]
                                ELSE monitor
                  /\ pc' = "lb_fetch"
                  /\ lctx' = "recreate"
             ELSE /\ pc' = RecreateReturn(TRUE)
                  /\ UNCHANGED <<monitor, lctx>>
       \/ /\ pc' = RecreateReturn(FALSE)
          /\ UNCHANGED <<collab, monitor, lctx>>
    /\ lastEvent' = "sleeping"
    /\ UNCHANGED <<SleepUnchanged, session, failed_cycles_count, server, authed,
                   sleepLog>>

\* self.failed_cycles_count = 0 at the end of sleep_until_reset
WakeCounter == 0

\* the end of sleep_until_reset, and the loop's load of the card after it
SleepDone ==
    /\ pc = "sl_done"
    /\ failed_cycles_count' = WakeCounter
    /\ sleepLog' = sleepLog \o <<"rebuild", "reset">>
    /\ pc' = "lb_fetch"
    /\ lctx' = "wake"
    /\ lastEvent' = "wake"
    /\ UNCHANGED <<SleepUnchanged, session, collab, monitor, server, authed>>

(***************************************************************************)
(* The end of run_processing_mode and of run(), and Ctrl+C.                *)
(***************************************************************************)
TailUnchanged == <<args, session, stats_manager, processor, failed_cycles_count,
                   locals, frame, world, ghost, orphans, harnessVars>>

\* history_monitor.stop() leaves the object in place, not running
HistoryStopped == IF history_monitor.exists
                  THEN [history_monitor EXCEPT !.running = FALSE]
                  ELSE history_monitor

\* after `break`: wait_for_monitor() blocks while a monitor runs; without
\* one run() stops the history monitor and returns 0
RunTail ==
    /\ pc = "after_loop"
    /\ IF monitor.exists /\ monitor.running
       THEN /\ pc' = "wfm"
            /\ lastEvent' = "wait_for_monitor"
            /\ UNCHANGED history_monitor
       ELSE /\ pc' = "exit"
            /\ lastEvent' = "return_0"
            /\ history_monitor' = HistoryStopped
    /\ UNCHANGED <<TailUnchanged, monitor>>

\* KeyboardInterrupt in wait_for_monitor: its handler stops both pollers,
\* then run() returns 0
InterruptHandled ==
    /\ pc = "wfm"
    /\ monitor' = [monitor EXCEPT !.running = FALSE]
    /\ history_monitor' = HistoryStopped
    /\ pc' = "exit"
    /\ lastEvent' = "return_0"
    /\ UNCHANGED TailUnchanged

\* KeyboardInterrupt in time.sleep of wait_for_boost_or_timeout or of
\* sleep_until_reset: no handler on the way up to main(), which prints a
\* warning and calls sys.exit(0).  The locals of the loop go with its frame.
Interrupt ==
    /\ pc \in {"wait", "sl_wait"}
    /\ pc' = "exit"
    /\ lastEvent' = "interrupted"
    /\ boost_card' = NoCard
    /\ current_boost_card' = NoCard
    /\ current_card_id' = 0
    /\ total' = 0
    /\ ticks' = 0
    /\ offerTarget' = 0
    /\ policyNew' = NoSwap
    /\ sleepLog' = <<>>
    /\ UNCHANGED <<args, session, collab, monitor, failed_cycles_count,
                   new_card, lb_card, frame, world, callLog, incsSinceForced,
                   deadIssue, orphans, harnessVars>>

(***************************************************************************)
(* check_and_refresh_session.  No code of the repository calls it; the     *)
(* specification SpecGuard calls it on an application that is set up.      *)
(***************************************************************************)
\* auth.is_authenticated(self.session): the session cookie is in the jar
is_authenticated_always == TRUE

is_authenticated == session \in authed

GuardUnchanged == <<args, failed_cycles_count, locals, frame, file, server,
                    ghost, orphans, policyVars, normVars, selVars, logVars>>

\* if not is_authenticated(self.session): ... ; return True
GuardCheck ==
    /\ pc = "g_check"
    /\ guard' = [active |-> TRUE, checked |-> is_authenticated,
                 path |-> IF is_authenticated THEN "live" ELSE "dead",
                 live |-> session \in authed,
                 session |-> session, stats_manager |-> stats_manager,
                 history_monitor |-> history_monitor, monitor |-> monitor,
                 processor |-> processor]
    /\ pc' = IF is_authenticated THEN "g_true" ELSE "g_refresh"
    /\ lastEvent' = "guard"
    /\ UNCHANGED <<GuardUnchanged, session, collab, monitor, authed>>

\* if refresh_session_token(self.session): if is_authenticated(...): return
\* True.  The page request of the refresh can bring the cookie back.
GuardRefresh ==
    /\ pc = "g_refresh"
    /\ \/ /\ authed' = authed \cup {session}
          /\ guard' = [guard EXCEPT !.path = "refreshed", !.checked = TRUE]
          /\ pc' = "g_true"
       \/ /\ pc' = "g_login"
          /\ UNCHANGED <<authed, guard>>
    /\ lastEvent' = "guard"
    /\ UNCHANGED <<GuardUnchanged, session, collab, monitor>>

\* self.session = login(...); if not self.session: return False;
\* return self.recreate_all_objects()
GuardLogin ==
    /\ pc = "g_login"
    /\ session < MaxLogins
    /\ \/ /\ session' = session + 1
          /\ authed' = authed \cup {session + 1}
          /\ guard' = [guard EXCEPT !.path = "login_ok"]
          /\ pc' = "rc"
       \/ /\ session' = 0
          /\ guard' = [guard EXCEPT !.path = "login_failed"]
          /\ pc' = "g_false"
          /\ UNCHANGED authed
    /\ lastEvent' = "guard"
    /\ UNCHANGED <<GuardUnchanged, collab, monitor>>

(***************************************************************************)
(* The world: the club's card changes, quotas are used up, and the boost   *)
(* poller (monitor.py) sees a new card on the page.                        *)
(***************************************************************************)
Running == pc \notin {"off", "setup", "exit", "after_loop", "wfm",
                      "g_check", "g_refresh", "g_login", "g_true", "g_false"}

EnvUnchanged == <<pc, args, session, collab, failed_cycles_count, locals, frame,
                  authed, ghost, lastEvent, orphans, harnessVars>>

\* The server changes between any two steps of the program.  A change shows
\* only at the next step that reads the value, so the model lets it happen
\* right before such a step: the card before a fetch, a reload or a place
\* where the poller's fields or the file are read or written, the donation
\* quota before can_donate, the replacement quota before can_replace and
\* the replace request.
CardSeenSoon == pc \in {"lb_fetch", "r_reload", "r_ret", "loop_top", "offers",
                        "post_offers", "wait"}

DonateSeenSoon == pc = "loop_top" \/ (pc = "r_ret" /\ rctx = "cycle")

ReplaceSeenSoon == pc \in {"f_pre", "r_can", "r_recheck", "r_replace"}

ServerBoost ==
    /\ Running
    /\ CardSeenSoon
    /\ \E id \in CardIds \ {server.card} : server' = [server EXCEPT !.card = id]
    /\ UNCHANGED <<EnvUnchanged, monitor, file>>

DonateDrain ==
    /\ Running
    /\ DonateSeenSoon
    /\ server.donate > 0
    /\ server' = [server EXCEPT !.donate = @ - 1]
    /\ UNCHANGED <<EnvUnchanged, monitor, file>>

ReplaceDrain ==
    /\ Running
    /\ ReplaceSeenSoon
    /\ server.replace > 0
    /\ server' = [server EXCEPT !.replace = @ - 1]
    /\ UNCHANGED <<EnvUnchanged, monitor, file>>

\* one check of the boost poller that finds another card on the page
MonitorPoll ==
    /\ Running
    /\ monitor.exists /\ monitor.running
    /\ monitor.session \in authed
    /\ server.card # monitor.current_card_id
    /\ \E c \in PageCards :
         /\ file' = c
         /\ monitor' = [monitor EXCEPT !.card_changed = TRUE,
                                       !.current_card_id = c.card_id]
    /\ UNCHANGED <<EnvUnchanged, server>>

(***************************************************************************)
(* src/card_selector.py: normalize_wanters and the comparisons made on     *)
(* normalised demands.                                                     *)
(***************************************************************************)
LOW_WANTERS_THRESHOLD == 5

\* config.MAX_WANTERS_FOR_TRADE: 70 by the comments of select_from_unparsed
\* and select_from_parsed ("но <= 70")
MAX_WANTERS_ALLOWED == 70

normalize_wanters_strict(wanters_count) ==
    IF wanters_count < LOW_WANTERS_THRESHOLD THEN 0 ELSE wanters_count

normalize_wanters(wanters_count) ==
    IF wanters_count <= LOW_WANTERS_THRESHOLD THEN 0 ELSE wanters_count

\* if normalized_wanters <= normalized_target
is_priority_raw(wanters, target) == wanters <= target

is_priority(wanters, target) ==
    normalize_wanters(wanters) <= normalize_wanters(target)

\* what select_from_unparsed does with a parsed candidate
ClassifyUnparsed(wanters, target) ==
    IF is_priority(wanters, target) THEN "priority"
    ELSE IF wanters > target THEN "alternative"
    ELSE "dropped"

\* the list select_from_parsed appends an eligible entry to
ClassifyParsed(wanters, target) ==
    IF is_priority(wanters, target) THEN "priority" ELSE "overshoot"

(***************************************************************************)
(* SpecNorm: the normalisation on every triple of demands of the range.    *)
(***************************************************************************)
MaxDemandIn == 75      \* demands tried: -MinDemandIn .. MaxDemandIn
MaxLowIn    == 8       \* second demand tried: -MinDemandIn .. MaxLowIn
MinDemandIn == 2

NoNormIn == [x |-> 0, y |-> 0, t |-> 0]

NoNormOut == [norm_x |-> 0, unparsed_xt |-> "", unparsed_yt |-> "",
              unparsed_tx |-> "", unparsed_ty |-> "", parsed_xt |-> "",
              parsed_yt |-> "", parsed_tx |-> "", parsed_ty |-> ""]

NormIdle ==
    /\ n_pc = "off"
    /\ n_in = NoNormIn
    /\ n_out = NoNormOut

ApplyNorm ==
    /\ n_pc = "input"
    /\ n_out' = [norm_x      |-> normalize_wanters(n_in.x),
                 unparsed_xt |-> ClassifyUnparsed(n_in.x, n_in.t),
                 unparsed_yt |-> ClassifyUnparsed(n_in.y, n_in.t),
                 unparsed_tx |-> ClassifyUnparsed(n_in.t, n_in.x),
                 unparsed_ty |-> ClassifyUnparsed(n_in.t, n_in.y),
                 parsed_xt   |-> ClassifyParsed(n_in.x, n_in.t),
                 parsed_yt   |-> ClassifyParsed(n_in.y, n_in.t),
                 parsed_tx   |-> ClassifyParsed(n_in.t, n_in.x),
                 parsed_ty   |-> ClassifyParsed(n_in.t, n_in.y)]
    /\ n_pc' = "done"
    /\ UNCHANGED <<n_in, policyVars, appVars, orphans, guard, selVars, logVars>>

(***************************************************************************)
(* The card selector.  An inventory instance is named by its instance id;  *)
(* CardOf gives the card it is a copy of.  A parsed inventory is a         *)
(* function from card ids to entries, NoEntry for a key the dict does not  *)
(* hold.  An entry is a dict object: what parse_and_cache_card returns is  *)
(* the object the parsed inventory holds, so a later write to that object  *)
(* shows in every reference to it.                                         *)
(***************************************************************************)
NumInst  == 4          \* inventory instances: 1 .. NumInst
MaxCalls == 2          \* select_best_card calls in a run
MaxReserved == 1       \* instances locked or marked used at a time
\* config.MAX_CARD_SELECTION_ATTEMPTS, the attempt budget of the first loop
MAX_CARD_SELECTION_ATTEMPTS == 2
NumKeys  == 7          \* card ids a parsed inventory can hold: 1 .. NumKeys

Inst == 1 .. NumInst

\* the keys of the parsed inventory dict, and the instances of the large
\* inventory of SpecFlush
Keys == 1 .. NumKeys

\* extract_card_data(card)["card_id"]: the last instance of the inventory
\* is a second copy of the card of the instance before it, every other
\* instance is the only copy of its card
CardOf(i) == IF i = NumInst THEN NumInst - 1 ELSE i

\* the rank on the card: instance 1 is of another rank than the target's
RankOf(i) == IF i = 1 THEN "B" ELSE "A"

TargetRank == "A"

\* what count_wants can answer for a card (negative: the request failed)
Demands == {0 - 1, 3, 25, 40, MAX_WANTERS_ALLOWED + 1}

\* wanters_count of the boost card the offer is made for
Targets == {2, 30}

\* the exclude_instances a call can be given
ExcludeSets == {{}, {2}}

\* the instances the offers of the run lock or use
Reservable == {2, 3}

NoEntry == [card_id |-> 0, rank |-> "", wanters_count |-> 0, instance_id |-> 0,
            valid |-> FALSE]

Entry(i, w, ok) == [card_id |-> CardOf(i), rank |-> RankOf(i), wanters_count |-> w,
                    instance_id |-> i, valid |-> ok]

EmptyCache == [c \in Keys |-> NoEntry]

\* the parsed inventory file a run can find: empty, or one entry left by an
\* earlier run, still valid or not
InitCaches ==
    {EmptyCache, [EmptyCache EXCEPT ![1] = Entry(1, 3, TRUE)]} \cup
    {[EmptyCache EXCEPT ![2] = Entry(2, w, ok)] :
        w \in {3, 40, MAX_WANTERS_ALLOWED + 1}, ok \in BOOLEAN}

SelLocalsClear ==
    /\ parsed_inventory' = EmptyCache
    /\ available_cards' = {}
    /\ target_wanters' = 0
    /\ exclude_instances' = {}
    /\ cards_checked' = 0
    /\ best_alternative' = NoEntry
    /\ s_result' = NoEntry
    /\ s_phase' = "none"
    /\ s_probed' = {}

SelInit ==
    /\ s_pc = "idle"
    /\ locked_cards = {}
    /\ used_cards = {}
    /\ cards_parsed_count = 0
    /\ inventory = Inst
    /\ parsed_disk \in InitCaches
    /\ parsed_inventory = EmptyCache
    /\ available_cards = {}
    /\ target_wanters = 0
    /\ exclude_instances = {}
    /\ cards_checked = 0
    /\ best_alternative = NoEntry
    /\ s_result = NoEntry
    /\ s_phase = "none"
    /\ s_probed = {}
    /\ s_calls = 0

SelIdle ==
    /\ s_pc = "off"
    /\ locked_cards = {}
    /\ used_cards = {}
    /\ cards_parsed_count = 0
    /\ inventory = {}
    /\ parsed_disk = EmptyCache
    /\ parsed_inventory = EmptyCache
    /\ available_cards = {}
    /\ target_wanters = 0
    /\ exclude_instances = {}
    /\ cards_checked = 0
    /\ best_alternative = NoEntry
    /\ s_result = NoEntry
    /\ s_phase = "none"
    /\ s_probed = {}
    /\ s_calls = 0

SelOthers == <<policyVars, appVars, orphans, guard, normVars, logVars>>

\* CardSelector.is_card_available
is_card_available_locked_only(instance_id) == instance_id \notin locked_cards

is_card_available(instance_id) ==
    /\ instance_id \notin locked_cards
    /\ instance_id \notin used_cards

\* CardSelector.filter_cards_by_rank
filter_cards_by_rank(inv, target_rank) ==
    {i \in inv : RankOf(i) = target_rank /\ is_card_available(i)}

\* the trade manager locks or releases an instance; mark_card_used and
\* reset_used_cards
SelLock ==
    /\ s_pc = "idle"
    /\ Cardinality(locked_cards \cup used_cards) < MaxReserved
    /\ \E i \in Reservable \ locked_cards : locked_cards' = locked_cards \cup {i}
    /\ UNCHANGED <<s_pc, used_cards, cards_parsed_count, inventory, parsed_disk,
                   parsed_inventory, available_cards, target_wanters,
                   exclude_instances, cards_checked, best_alternative, s_result,
                   s_phase, s_probed, s_calls, SelOthers>>

SelUnlock ==
    /\ s_pc = "idle"
    /\ \E i \in locked_cards : locked_cards' = locked_cards \ {i}
    /\ UNCHANGED <<s_pc, used_cards, cards_parsed_count, inventory, parsed_disk,
                   parsed_inventory, available_cards, target_wanters,
                   exclude_instances, cards_checked, best_alternative, s_result,
                   s_phase, s_probed, s_calls, SelOthers>>

mark_card_used ==
    /\ s_pc = "idle"
    /\ Cardinality(locked_cards \cup used_cards) < MaxReserved
    /\ \E i \in Reservable \ used_cards : used_cards' = used_cards \cup {i}
    /\ UNCHANGED <<s_pc, locked_cards, cards_parsed_count, inventory, parsed_disk,
                   parsed_inventory, available_cards, target_wanters,
                   exclude_instances, cards_checked, best_alternative, s_result,
                   s_phase, s_probed, s_calls, SelOthers>>

reset_used_cards ==
    /\ s_pc = "idle"
    /\ used_cards # {}
    /\ used_cards' = {}
    /\ UNCHANGED <<s_pc, locked_cards, cards_parsed_count, inventory, parsed_disk,
                   parsed_inventory, available_cards, target_wanters,
                   exclude_instances, cards_checked, best_alternative, s_result,
                   s_phase, s_probed, s_calls, SelOthers>>

\* select_trade_card / select_best_card up to the choice of the phase
SelStart ==
    /\ s_pc = "idle"
    /\ s_calls < MaxCalls
    /\ \E t \in Targets, ex \in ExcludeSets :
         /\ target_wanters' = t
         /\ exclude_instances' = ex
    /\ parsed_inventory' = parsed_disk
    /\ LET avail == filter_cards_by_rank(inventory, TargetRank)
       IN  IF inventory = {} /\ parsed_disk = EmptyCache
           THEN /\ s_pc' = "ret"
                /\ available_cards' = {}
           ELSE IF avail # {}
           THEN /\ s_pc' = "unparsed"
                /\ available_cards' = avail
           ELSE /\ s_pc' = "parsed"
                /\ available_cards' = {}
    /\ cards_checked' = 0
    /\ best_alternative' = NoEntry
    /\ s_result' = NoEntry
    /\ s_phase' = "none"
    /\ s_probed' = {}
    /\ s_calls' = s_calls + 1
    /\ UNCHANGED <<locked_cards, used_cards, cards_parsed_count, inventory,
                   parsed_disk, SelOthers>>

\* parse_and_cache_card without `if wanters_count < 0: return None`
parse_and_cache_card_failure_kept(i, w) ==
    LET cached == parsed_inventory[CardOf(i)]
        miss   == [parsed |-> NoEntry, cache |-> parsed_inventory]
    IN  IF ~is_card_available(i)
        THEN miss @@ [outcome |-> "unavailable"]
        ELSE IF cached # NoEntry /\ cached.valid
        THEN [parsed  |-> [cached EXCEPT !.instance_id = i],
              cache   |-> [parsed_inventory EXCEPT ![CardOf(i)] =
                              [cached EXCEPT !.instance_id = i]],
              outcome |-> "cache"]
        ELSE IF w > MAX_WANTERS_ALLOWED
        THEN miss @@ [outcome |-> "over"]
        ELSE [parsed  |-> Entry(i, w, TRUE),
              cache   |-> [parsed_inventory EXCEPT ![CardOf(i)] =
                              Entry(i, w, TRUE)],
              outcome |-> "live"]

\* CardSelector.parse_and_cache_card for instance i when count_wants would
\* answer w: the card it returns, the parsed inventory it leaves and which
\* way it took
parse_and_cache_card(i, w) ==
    LET cached == parsed_inventory[CardOf(i)]
        miss   == [parsed |-> NoEntry, cache |-> parsed_inventory]
    IN  IF ~is_card_available(i)
        THEN miss @@ [outcome |-> "unavailable"]
        ELSE IF cached # NoEntry /\ cached.valid
        THEN [parsed  |-> [cached EXCEPT !.instance_id = i],
              cache   |-> [parsed_inventory EXCEPT ![CardOf(i)] =
                              [cached EXCEPT !.instance_id = i]],
              outcome |-> "cache"]
        ELSE IF w < 0
        THEN miss @@ [outcome |-> "fail"]
        ELSE IF w > MAX_WANTERS_ALLOWED
        THEN miss @@ [outcome |-> "over"]
        ELSE [parsed  |-> Entry(i, w, TRUE),
              cache   |-> [parsed_inventory EXCEPT ![CardOf(i)] =
                              Entry(i, w, TRUE)],
              outcome |-> "live"]

\* self.cards_parsed_count after the call, and the file after the save made
\* at every fifth parsed card
DiskAfterNoSave(r) == parsed_disk

CountAfter(r) == IF r.outcome = "live" THEN cards_parsed_count + 1
                 ELSE cards_parsed_count

DiskAfter(r) == IF r.outcome = "live" /\ CountAfter(r) % 5 = 0 THEN r.cache
                ELSE parsed_disk

\* if self.cards_parsed_count > 0: save_parsed_inventory(parsed_inventory)
FinalSave(count, cache, disk) == IF count > 0 THEN cache ELSE disk

ProbeRecord(i, w, r) ==
    [instance_id |-> i, outcome |-> r.outcome,
     wanters_count |-> IF r.parsed # NoEntry THEN r.parsed.wanters_count ELSE w]

\* best_alternative refers to the dict parse_and_cache_card returned, which
\* is the object the parsed inventory holds for the card; a cache hit on
\* another copy of that card writes its instance id into the same object
\* (`cached["instance_id"] = instance_id`)
Aliased(i, r) ==
    IF /\ best_alternative # NoEntry
       /\ r.outcome = "cache"
       /\ best_alternative.card_id = CardOf(i)
    THEN [best_alternative EXCEPT !.instance_id = i]
    ELSE best_alternative

\* best_alternative after a candidate of the first loop that is no hit
AlternativeAfter(parsed, alt) ==
    IF parsed = NoEntry THEN alt
    ELSE IF parsed.wanters_count > target_wanters
    THEN IF alt = NoEntry THEN parsed
         ELSE IF parsed.wanters_count < alt.wanters_count
         THEN parsed
         ELSE alt
    ELSE alt

\* best_alternative after a candidate of the second loop that is no hit
AlternativeContinued(parsed, alt) ==
    IF /\ parsed # NoEntry
       /\ parsed.wanters_count > target_wanters
       /\ parsed.wanters_count < alt.wanters_count
    THEN parsed ELSE alt

\* a first loop without the test of cards_checked
BudgetLeftAlways == TRUE

\* `cards_checked < max_attempts` of the first loop
BudgetLeft == cards_checked < MAX_CARD_SELECTION_ATTEMPTS

\* one pass of `while available_cards and cards_checked < max_attempts`
SelProbeStopsNever(hit) == FALSE

SelProbeStops(hit) == hit

SelProbe ==
    /\ s_pc = "unparsed"
    /\ available_cards # {}
    /\ BudgetLeft
    /\ \E i \in available_cards, w \in Demands :
         LET r   == parse_and_cache_card(i, w)
             hit == /\ r.parsed # NoEntry
                    /\ is_priority(r.parsed.wanters_count, target_wanters)
         IN  /\ cards_checked' = cards_checked + 1
             /\ available_cards' = available_cards \ {i}
             /\ inventory' = inventory \ {i}
             /\ parsed_inventory' = r.cache
             /\ cards_parsed_count' = CountAfter(r)
             /\ s_probed' = s_probed \cup {ProbeRecord(i, w, r)}
             /\ IF SelProbeStops(hit)
                THEN /\ parsed_disk' = FinalSave(CountAfter(r), r.cache, DiskAfter(r))
                     /\ s_result' = r.parsed
                     /\ s_phase' = "unparsed"
                     /\ s_pc' = "ret"
                     /\ UNCHANGED best_alternative
                ELSE /\ parsed_disk' = DiskAfter(r)
                     /\ best_alternative' =
                          AlternativeAfter(r.parsed, Aliased(i, r))
                     /\ UNCHANGED <<s_result, s_phase, s_pc>>
    /\ UNCHANGED <<locked_cards, used_cards, target_wanters, exclude_instances,
                   s_calls, SelOthers>>

\* a select_best_card that goes on to the parsed inventory whatever
\* select_from_unparsed returned
UnparsedEndToParsed ==
    /\ parsed_disk' = FinalSave(cards_parsed_count, parsed_inventory, parsed_disk)
    /\ s_pc' = "parsed"
    /\ UNCHANGED <<s_result, s_phase>>

\* the end of select_from_unparsed and what select_best_card does with its
\* result: return it, or go on to the parsed inventory
UnparsedEnd ==
    /\ parsed_disk' = FinalSave(cards_parsed_count, parsed_inventory, parsed_disk)
    /\ IF best_alternative # NoEntry
       THEN /\ s_result' = best_alternative
            /\ s_phase' = "unparsed"
            /\ s_pc' = "ret"
       ELSE /\ s_pc' = "parsed"
            /\ UNCHANGED <<s_result, s_phase>>

\* the first loop is left: `if available_cards and best_alternative` the
\* second loop follows
SelBudget ==
    /\ s_pc = "unparsed"
    /\ available_cards = {} \/ ~BudgetLeft
    /\ IF available_cards # {} /\ best_alternative # NoEntry
       THEN /\ s_pc' = "cont"
            /\ UNCHANGED <<parsed_disk, s_result, s_phase>>
       ELSE UnparsedEnd
    /\ UNCHANGED <<locked_cards, used_cards, cards_parsed_count, inventory,
                   parsed_inventory, available_cards, target_wanters,
                   exclude_instances, cards_checked, best_alternative,
                   s_probed, s_calls, SelOthers>>

\* one pass of the second loop, `while available_cards`
SelContinue ==
    /\ s_pc = "cont"
    /\ available_cards # {}
    /\ \E i \in available_cards, w \in Demands :
         LET r   == parse_and_cache_card(i, w)
             hit == /\ r.parsed # NoEntry
                    /\ is_priority(r.parsed.wanters_count, target_wanters)
         IN  /\ available_cards' = available_cards \ {i}
             /\ inventory' = inventory \ {i}
             /\ parsed_inventory' = r.cache
             /\ cards_parsed_count' = CountAfter(r)
             /\ s_probed' = s_probed \cup {ProbeRecord(i, w, r)}
             /\ IF SelProbeStops(hit)
                THEN /\ parsed_disk' = FinalSave(CountAfter(r), r.cache, DiskAfter(r))
                     /\ s_result' = r.parsed
                     /\ s_phase' = "unparsed"
                     /\ s_pc' = "ret"
                     /\ UNCHANGED best_alternative
                ELSE /\ parsed_disk' = DiskAfter(r)
                     /\ best_alternative' =
                          AlternativeContinued(r.parsed, Aliased(i, r))
                     /\ UNCHANGED <<s_result, s_phase, s_pc>>
    /\ UNCHANGED <<locked_cards, used_cards, target_wanters, exclude_instances,
                   cards_checked, s_calls, SelOthers>>

SelContinueEnd ==
    /\ s_pc = "cont"
    /\ available_cards = {}
    /\ UnparsedEnd
    /\ UNCHANGED <<locked_cards, used_cards, cards_parsed_count, inventory,
                   parsed_inventory, available_cards, target_wanters,
                   exclude_instances, cards_checked, best_alternative,
                   s_probed, s_calls, SelOthers>>

\* select_from_parsed: the entries it keeps, its two lists and its choice
ParsedEligible ==
    {c \in Keys :
        /\ parsed_inventory[c] # NoEntry
        /\ parsed_inventory[c].rank = TargetRank
        /\ parsed_inventory[c].instance_id \notin exclude_instances
        /\ is_card_available(parsed_inventory[c].instance_id)
        /\ parsed_inventory[c].wanters_count <= MAX_WANTERS_ALLOWED}

suitable_priority1 ==
    {c \in ParsedEligible :
        ClassifyParsed(parsed_inventory[c].wanters_count, target_wanters)
            = "priority"}

suitable_priority2 == ParsedEligible \ suitable_priority1

\* select_from_parsed taking any entry of suitable_priority2
select_from_parsed_unsorted ==
    IF suitable_priority1 # {}
    THEN {parsed_inventory[c] : c \in suitable_priority1}
    ELSE IF suitable_priority2 # {}
    THEN {parsed_inventory[c] : c \in suitable_priority2}
    ELSE {NoEntry}

\* select_from_parsed looking at suitable_priority2 first
select_from_parsed_overshoot_first ==
    IF suitable_priority2 # {}
    THEN {parsed_inventory[c] : c \in suitable_priority2}
    ELSE IF suitable_priority1 # {}
    THEN {parsed_inventory[c] : c \in suitable_priority1}
    ELSE {NoEntry}

select_from_parsed ==
    IF suitable_priority1 # {}
    THEN {parsed_inventory[c] : c \in suitable_priority1}
    ELSE IF suitable_priority2 # {}
    THEN {parsed_inventory[c] : c \in
            {d \in suitable_priority2 :
                \A e \in suitable_priority2 :
                    parsed_inventory[d].wanters_count
                        <= parsed_inventory[e].wanters_count}}
    ELSE {NoEntry}

\* select_best_card's second phase: `if parsed_inventory:` select_from_parsed
SelParsed ==
    /\ s_pc = "parsed"
    /\ \E r \in (IF parsed_inventory = EmptyCache THEN {NoEntry}
                 ELSE select_from_parsed) :
         /\ s_result' = r
         /\ s_phase' = IF r = NoEntry THEN "none" ELSE "parsed"
    /\ s_pc' = "ret"
    /\ UNCHANGED <<locked_cards, used_cards, cards_parsed_count, inventory,
                   parsed_disk, parsed_inventory, available_cards,
                   target_wanters, exclude_instances, cards_checked,
                   best_alternative, s_probed, s_calls, SelOthers>>

\* the caller has the result; the locals of the call are gone
SelReturn ==
    /\ s_pc = "ret"
    /\ s_pc' = "idle"
    /\ SelLocalsClear
    /\ UNCHANGED <<locked_cards, used_cards, cards_parsed_count, inventory,
                   parsed_disk, s_calls, SelOthers>>

(***************************************************************************)
(* Specifications.                                                         *)
(***************************************************************************)
Init == PolicyIdle /\ NormIdle /\ SelIdle /\ AppInit

Next ==
    \/ Setup
    \/ InitManagers
    \/ LoadFetch
    \/ LoadDoneStartup
    \/ LoadDoneRecreate
    \/ LoadDoneWake
    \/ RPolicy
    \/ RCan
    \/ RCancel
    \/ RRecheck
    \/ RReplace
    \/ RSettle
    \/ RReload
    \/ CycleStart
    \/ AttemptPre
    \/ ForcedReturn
    \/ PolicyReturn
    \/ OfferLoop
    \/ PostOffersChanged
    \/ PostOffersWait
    \/ PostOffersZero
    \/ PostOffersFallThrough
    \/ WaitPoll
    \/ WaitTimeout
    \/ SleepCancel
    \/ SleepStop
    \/ SleepLogout
    \/ SleepWait
    \/ SleepLogin
    \/ Recreate
    \/ SleepDone
    \/ RunTail
    \/ InterruptHandled
    \/ Interrupt
    \/ ServerBoost
    \/ DonateDrain
    \/ ReplaceDrain
    \/ MonitorPoll

Spec == Init /\ [][Next]_vars

\* SpecGuard: the application as the loop has it after start-up, on its
\* first session, whose cookie is in the jar or not
InitGuard ==
    /\ PolicyIdle
    /\ NormIdle
    /\ SelIdle
    /\ pc = "g_check"
    /\ args \in [dry_run : {FALSE}, enable_monitor : BOOLEAN,
                 skip_inventory : {FALSE}]
    /\ session = 1
    /\ stats_manager = 1
    /\ history_monitor = [exists |-> TRUE, running |-> TRUE, session |-> 1]
    /\ server \in [card : CardIds, donate : 0 .. MaxDonate,
                   replace : 0 .. MaxReplace]
    /\ file \in {Card(id, OwnersOf(id), WantersOf(id)) : id \in CardIds}
    /\ monitor = IF args.enable_monitor
                 THEN [exists |-> TRUE, running |-> TRUE, session |-> 1,
                       card_changed |-> FALSE, current_card_id |-> file.card_id]
                 ELSE NoMonitor
    /\ processor = [exists |-> TRUE, session |-> 1, trade_manager |-> TRUE]
    /\ failed_cycles_count = 0
    /\ boost_card = NoCard
    /\ current_boost_card = NoCard
    /\ new_card = NoCard
    /\ current_card_id = 0
    /\ lb_card = NoCard
    /\ total = 0
    /\ ticks = 0
    /\ lctx = "none"
    /\ rkind = "none"
    /\ rctx = "none"
    /\ old_card = NoCard
    /\ authed \in {{}, {1}}
    /\ callLog = <<>>
    /\ sleepLog = <<>>
    /\ lastEvent = "init"
    /\ incsSinceForced = 0 - 1
    /\ offerTarget = 0
    /\ policyNew = NoSwap
    /\ deadIssue = FALSE
    /\ orphans = {}
    /\ guard = NoGuard
    /\ LogInit

NextGuard ==
    \/ GuardCheck
    \/ GuardRefresh
    \/ GuardLogin
    \/ Recreate
    \/ LoadFetch
    \/ RPolicy
    \/ RCan
    \/ RCancel
    \/ RRecheck
    \/ RReplace
    \/ RSettle
    \/ RReload
    \/ LoadDoneRecreate
    \/ ServerBoost
    \/ ReplaceDrain

SpecGuard == InitGuard /\ [][NextGuard]_vars

InitPolicy ==
    /\ AppIdle
    /\ NormIdle
    /\ SelIdle
    /\ p_pc = "input"
    /\ p_card \in {[card_id |-> 1, owners_count |-> c.owners_count,
                    wanters_count |-> c.wanters_count] : c \in CountsIn}
    /\ p_verdict = FALSE

NextPolicy == ApplyPolicy

SpecPolicy == InitPolicy /\ [][NextPolicy]_vars

InitNorm ==
    /\ AppIdle
    /\ PolicyIdle
    /\ SelIdle
    /\ n_pc = "input"
    /\ n_in \in [x : (0 - MinDemandIn) .. MaxDemandIn,
                 y : (0 - MinDemandIn) .. MaxLowIn,
                 t : (0 - MinDemandIn) .. MaxDemandIn]
    /\ n_out = NoNormOut

NextNorm == ApplyNorm

SpecNorm == InitNorm /\ [][NextNorm]_vars

InitSelect ==
    /\ AppIdle
    /\ PolicyIdle
    /\ NormIdle
    /\ SelInit

NextSelect ==
    \/ SelLock
    \/ SelUnlock
    \/ mark_card_used
    \/ reset_used_cards
    \/ SelStart
    \/ SelProbe
    \/ SelBudget
    \/ SelContinue
    \/ SelContinueEnd
    \/ SelParsed
    \/ SelReturn

SpecSelect == InitSelect /\ [][NextSelect]_vars

\* SpecLog: the log handler alone, from its construction
InitLog ==
    /\ AppIdle
    /\ PolicyIdle
    /\ NormIdle
    /\ SelIdle

NextLog ==
    \/ Midnight
    \/ emit
    \/ LogClose

SpecLog == InitLog /\ [][NextLog]_vars

\* SpecBudget: one call of a CardSelector, on what is left of the inventory
\* and with the parsed inventory file an earlier run or call can leave.
\* select_from_unparsed runs on the calling thread and none of its steps
\* waits for another thread: a step that can be taken is taken.
InitBudget ==
    /\ AppIdle
    /\ PolicyIdle
    /\ NormIdle
    /\ s_pc = "idle"
    /\ locked_cards = {}
    /\ used_cards = {}
    /\ cards_parsed_count = 0
    /\ inventory \in SUBSET Inst
    /\ parsed_disk \in InitCaches
    /\ parsed_inventory = EmptyCache
    /\ available_cards = {}
    /\ target_wanters = 0
    /\ exclude_instances = {}
    /\ cards_checked = 0
    /\ best_alternative = NoEntry
    /\ s_result = NoEntry
    /\ s_phase = "none"
    /\ s_probed = {}
    /\ s_calls = MaxCalls - 1

SpecBudget ==
    /\ InitBudget
    /\ [][NextSelect]_vars
    /\ WF_vars(SelProbe \/ SelBudget \/ SelContinue \/ SelContinueEnd)

\* SpecFlush: the CardSelector select_trade_card builds for one call, on an
\* inventory of NumKeys cards and an empty parsed inventory file, so that the
\* call can parse five cards and more
InitFlush ==
    /\ AppIdle
    /\ PolicyIdle
    /\ NormIdle
    /\ s_pc = "idle"
    /\ locked_cards = {}
    /\ used_cards = {}
    /\ cards_parsed_count = 0
    /\ inventory = Keys
    /\ parsed_disk = EmptyCache
    /\ parsed_inventory = EmptyCache
    /\ available_cards = {}
    /\ target_wanters = 0
    /\ exclude_instances = {}
    /\ cards_checked = 0
    /\ best_alternative = NoEntry
    /\ s_result = NoEntry
    /\ s_phase = "none"
    /\ s_probed = {}
    /\ s_calls = MaxCalls - 1

NextFlush ==
    \/ SelStart
    \/ SelProbe
    \/ SelBudget
    \/ SelContinue
    \/ SelContinueEnd
    \/ SelParsed
    \/ SelReturn

SpecFlush == InitFlush /\ [][NextFlush]_vars

(***************************************************************************)
(* Properties.                                                             *)
(***************************************************************************)
InLog(log, e) == \E i \in 1 .. Len(log) : log[i] = e

\* the log of a replacement call without the policy check in front of it
CallBody == IF Len(callLog) > 0 /\ callLog[1] = "policy" THEN Tail(callLog)
            ELSE callLog

ReplaceEvents == {"replace_ok", "replace_fail"}

\* the steps of a replacement call that goes through
CallSteps == <<"quota_ok", "cancel", "quota_ok", "replace_ok", "settle",
               "refresh", "reload", "compare">>

IsPrefix(a, b) == Len(a) <= Len(b) /\ \A i \in 1 .. Len(a) : a[i] = b[i]

\* C1: should_replace_card returns true exactly when (1 <= owners <= 108),
\* or (109 <= owners <= 216 and wanters >= 121), or (217 <= owners <= 360
\* and wanters >= 181), or (361 <= owners <= 540 and wanters >= 300); it is
\* false for owners <= 0 and for owners > 540 whatever wanters is.
C1_PolicyTable ==
    p_pc = "done" =>
        LET o == p_card.owners_count
            w == p_card.wanters_count
        IN  /\ p_verdict <=> \/ (1 <= o /\ o <= 108)
                             \/ (109 <= o /\ o <= 216 /\ w >= 121)
                             \/ (217 <= o /\ o <= 360 /\ w >= 181)
                             \/ (361 <= o /\ o <= 540 /\ w >= 300)
            /\ (o <= 0 \/ o > 540) => ~p_verdict

C1_Witness ==
    /\ p_pc = "done"
    /\ p_card.owners_count = 109
    /\ p_card.wanters_count = 121
    /\ p_verdict

\* C2: a replacement call returns a card only when the reloaded card's id
\* differs from the id of the card passed in; when the server took the
\* replace action and the reloaded card has the same id the call returns
\* None, and no call issues the replace action twice.
C2_ReplacementChangesIdentity ==
    /\ pc = "r_ret" /\ new_card # NoCard => new_card.card_id # old_card.card_id
    /\ Cardinality({i \in 1 .. Len(callLog) : callLog[i] \in ReplaceEvents}) <= 1

C2_Witness ==
    /\ pc = "r_ret"
    /\ InLog(callLog, "replace_ok")
    /\ InLog(callLog, "compare")
    /\ new_card = NoCard

\* C3: the replace action is issued only right after a refreshed quota check
\* that reported quota left; when the first quota check of the call reports
\* the quota exhausted the call returns None with no cancel and no replace.
C3_QuotaGuardsReplace ==
    /\ \A i \in 1 .. Len(callLog) :
          callLog[i] \in ReplaceEvents => i > 1 /\ callLog[i - 1] = "quota_ok"
    /\ Len(CallBody) > 0 /\ CallBody[1] = "quota_no" =>
          /\ pc = "r_ret"
          /\ new_card = NoCard
          /\ CallBody = <<"quota_no">>

C3_Witness ==
    /\ pc = "r_ret"
    /\ rkind = "forced"
    /\ callLog = <<"quota_no">>

\* C4: the steps of a replacement call happen in the order cancel, replace,
\* settle delay, quota refresh, reload, compare (each quota check in its
\* place); a call that returns a card has made them all, and no call issues
\* the replace action without the cancel before it.
C4_CallOrder ==
    /\ \A i \in 1 .. Len(CallBody) :
          \/ i <= Len(CallSteps) /\ CallBody[i] = CallSteps[i]
          \/ /\ i = Len(CallBody) /\ i <= Len(CallSteps)
             /\ CallBody[i] = "quota_no" /\ CallSteps[i] = "quota_ok"
          \/ /\ i = Len(CallBody) /\ i <= Len(CallSteps)
             /\ CallBody[i] = "replace_fail" /\ CallSteps[i] = "replace_ok"
    /\ pc = "r_ret" /\ new_card # NoCard => CallBody = CallSteps
    /\ \A i \in 1 .. Len(callLog) :
          callLog[i] \in ReplaceEvents =>
             \E j \in 1 .. i - 1 : callLog[j] = "cancel"

C4_Witness ==
    /\ pc = "r_ret"
    /\ rkind = "forced"
    /\ new_card # NoCard

\* C5: the failure counter is 0 right after each of: the target-changed flag
\* seen after the offer loop or during the wait, a forced replacement that
\* succeeded, a policy replacement in the cycle that succeeded, a forced
\* attempt that failed (the fallback), the wake from sleep.
ResetEvents == {"changed_after_offers", "changed_in_wait", "forced_ok",
                "policy_ok", "forced_fail", "wake"}

C5_CounterReset == lastEvent \in ResetEvents => failed_cycles_count = 0

C5_Witness == lastEvent = "policy_ok" /\ incsSinceForced > 0

\* C6: at the start of a cycle a forced replacement is attempted if and only
\* if failed_cycles_count >= 3, and the forced call never consults
\* should_replace_card.
C6_ForcedIffThreshold ==
    /\ pc = "f_pre" => failed_cycles_count >= 3
    /\ lastEvent = "cycle_start" /\ pc = "r_policy" => failed_cycles_count < 3
    /\ rkind = "forced" => ~InLog(callLog, "policy")

C6_Witness ==
    /\ pc = "r_ret"
    /\ rkind = "forced"
    /\ new_card # NoCard
    /\ ~should_replace_card(old_card)

\* C7: after a forced replacement succeeds, the cycle that restarts takes
\* as its current target the new card the replacement returned.
C7_RestartWithNewTarget ==
    [][lastEvent = "forced_ok" /\ pc = "loop_top" /\ pc' \in {"f_pre", "r_policy"}
         => current_boost_card'.card_id = current_boost_card.card_id]_vars

\* C8: a forced attempt begins only after at least three increments of the
\* failure counter since the previous forced attempt.
C8_BoundedEscalation ==
    pc = "f_pre" /\ incsSinceForced >= 0 => incsSinceForced >= 3

C8_Witness == pc = "f_pre" /\ incsSinceForced = 3

\* C9: when the policy replacement of a cycle succeeds the failure counter is
\* 0, the poller's current card id is the new card's id, and the offer loop
\* that follows runs against the new id, not the replaced one.
C9_PolicySwap ==
    /\ [](lastEvent = "policy_ok" => failed_cycles_count = 0)
    /\ [](pc = "post_offers" /\ policyNew # NoSwap =>
             offerTarget = policyNew.new /\ offerTarget # policyNew.old)
    /\ [][pc = "r_ret" /\ lastEvent' = "policy_ok" /\ monitor.exists
            => monitor'.current_card_id = new_card.card_id]_vars

C9_Witness ==
    /\ pc = "post_offers"
    /\ policyNew # NoSwap
    /\ monitor.exists
    /\ total > 0

\* The steps of sleep_until_reset, in the order of the code.
SleepSteps == <<"cancel", "stop", "logout", "wait", "login", "rebuild", "reset">>

SleepOrder(steps) ==
    \/ IsPrefix(sleepLog, steps)
    \/ /\ Len(sleepLog) > 0
       /\ sleepLog[Len(sleepLog)] = "login_failed"
       /\ Len(sleepLog) <= Len(steps)
       /\ steps[Len(sleepLog)] = "login"
       /\ IsPrefix(SubSeq(sleepLog, 1, Len(sleepLog) - 1), steps)

SessionsHeld ==
    {stats_manager}
    \cup (IF history_monitor.exists THEN {history_monitor.session} ELSE {})
    \cup (IF processor.exists THEN {processor.session} ELSE {})
    \cup (IF monitor.exists THEN {monitor.session} ELSE {})
    \cup orphans

\* C11: when the loop runs again after a sleep and a successful re-login,
\* the quota tracker, the history poller, the boost poller and the owners
\* processor were all built with the new session, and no poller that still
\* runs holds an earlier session.
C11_CollaboratorsOnNewSession ==
    pc = "loop_top" /\ session > 1 => SessionsHeld = {session}

\* the target-changed flag as the loop reads it
FlagSet == monitor.exists /\ monitor.card_changed

\* C12: when offers were made in the cycle and the flag is not set after the
\* offer loop, the loop enters the wait; a wait that sees the flag ends the
\* cycle with the counter at 0 and no cancel; a wait that times out cancels
\* the offers and adds exactly 1 to the counter.
C12_WaitOrTimeout ==
    [][/\ (pc = "post_offers" /\ pc' # pc /\ total > 0 /\ ~FlagSet =>
              pc' = "wait")
       /\ (lastEvent' = "changed_in_wait" => failed_cycles_count' = 0)
       /\ (pc = "wait" /\ pc' = "loop_top" /\ lastEvent' # "changed_in_wait" =>
              /\ lastEvent' = "fail_timeout_cancel"
              /\ failed_cycles_count' = failed_cycles_count + 1)]_vars

\* C13: when the offer loop made no offer and no change of the target was
\* reported, the counter is incremented by exactly 1 and the next cycle
\* starts with no wait and no cancel.
C13_ZeroOffers ==
    [][pc = "post_offers" /\ pc' # pc /\ total = 0 /\ ~should_restart =>
          /\ failed_cycles_count' = failed_cycles_count + 1
          /\ pc' = "loop_top"
          /\ lastEvent' = "fail_no_owners"]_vars

C13_Witness ==
    /\ lastEvent = "fail_no_owners"
    /\ pc = "loop_top"
    /\ failed_cycles_count = 2

\* C14: every iteration that ran the offer loop and ends with no change of
\* the target observed increments the counter by exactly 1, with or without
\* a poller and whatever the number of offers.
C14_OncePerFailedCycle ==
    [][/\ pc \in {"post_offers", "wait"}
       /\ pc' = "loop_top"
       /\ lastEvent' \notin {"changed_after_offers", "changed_in_wait"}
       => failed_cycles_count' = failed_cycles_count + 1]_vars

\* C15: a selection call never returns an instance that is locked or that
\* was marked used and not released since, from either phase.
C15_ReservedNeverSelected ==
    s_pc = "ret" /\ s_result # NoEntry =>
        /\ s_result.instance_id \notin locked_cards
        /\ s_result.instance_id \notin used_cards

C15_Witness ==
    /\ s_pc = "ret"
    /\ s_phase = "parsed"
    /\ s_result # NoEntry
    /\ \E c \in Inst : /\ parsed_inventory[c] # NoEntry
                       /\ parsed_inventory[c].instance_id \in used_cards

\* C16: a selection call never returns an instance whose id is in
\* exclude_instances, whichever phase produces the result.
C16_ExcludedNeverSelected ==
    s_pc = "ret" /\ s_result # NoEntry =>
        s_result.instance_id \notin exclude_instances

\* C17: a selection call never returns an item with more wanters than
\* MAX_WANTERS_ALLOWED, from a live probe, from a valid cache entry of the
\* unparsed phase or from the parsed phase.
C17_CeilingRespected ==
    s_pc = "ret" /\ s_result # NoEntry =>
        s_result.wanters_count <= MAX_WANTERS_ALLOWED

\* a candidate of this call that was parsed and meets the target
QualifyingProbes ==
    {r \in s_probed :
        /\ r.outcome \in {"live", "cache"}
        /\ (IF r.wanters_count <= 5 THEN 0 ELSE r.wanters_count)
             <= (IF target_wanters <= 5 THEN 0 ELSE target_wanters)}

\* C18: in the unparsed phase a parsed candidate with norm(wanters) <=
\* norm(target) is returned at once: while the phase still probes, no
\* candidate taken so far qualified, and the one that qualifies is the
\* result, within the attempt budget and past it.
C18_ShortCircuit ==
    \A r \in QualifyingProbes :
        /\ s_pc = "ret"
        /\ s_phase = "unparsed"
        /\ s_result.instance_id = r.instance_id

C18_Witness ==
    /\ s_pc = "ret"
    /\ Cardinality(s_probed) = 1
    /\ Cardinality(QualifyingProbes) = 1
    /\ Cardinality(available_cards) = 2
    /\ target_wanters = 30

\* C19: normalize_wanters(x) is 0 for every x <= 5 and x for every x > 5,
\* negative x included.
C19_Normalize ==
    n_pc = "done" =>
        n_out.norm_x = (IF n_in.x <= 5 THEN 0 ELSE n_in.x)

C19_Witness ==
    /\ n_pc = "done"
    /\ n_in.x = 5
    /\ n_out.norm_x = 0

\* C20: replacing a candidate's demand by another value <= 5, or the target
\* by another value <= 5, changes neither the priority nor the alternative /
\* overshoot classification, in the unparsed and in the parsed phase.
C20_LowDemandSwap ==
    n_pc = "done" /\ n_in.x <= 5 /\ n_in.y <= 5 =>
        /\ n_out.unparsed_xt = n_out.unparsed_yt
        /\ n_out.parsed_xt = n_out.parsed_yt
        /\ n_out.unparsed_tx = n_out.unparsed_ty
        /\ n_out.parsed_tx = n_out.parsed_ty

C20_Witness ==
    /\ n_pc = "done"
    /\ n_in.x = 5
    /\ n_in.y = 0
    /\ n_in.t = 40
    /\ n_out.unparsed_tx = "alternative"
    /\ n_out.unparsed_xt = "priority"

\* the entries of the parsed inventory the parsed phase may return: rank of
\* the target, instance not excluded, locked or used, wanters under the
\* ceiling; and its two classes
CachedEligible ==
    {c \in DOMAIN parsed_inventory :
        /\ parsed_inventory[c] # NoEntry
        /\ parsed_inventory[c].rank = TargetRank
        /\ parsed_inventory[c].instance_id
             \notin (exclude_instances \cup locked_cards \cup used_cards)
        /\ parsed_inventory[c].wanters_count <= MAX_WANTERS_ALLOWED}

CachedPriority ==
    {c \in CachedEligible :
        (IF parsed_inventory[c].wanters_count <= 5 THEN 0
         ELSE parsed_inventory[c].wanters_count)
          <= (IF target_wanters <= 5 THEN 0 ELSE target_wanters)}

CachedOvershoot == CachedEligible \ CachedPriority

\* C21: when the parsed phase finds no priority entry, the entry it returns
\* is an eligible overshoot entry of the least raw wanters_count.
C21_MinimumOvershoot ==
    s_pc = "ret" /\ s_phase = "parsed" /\ CachedPriority = {} =>
        /\ \E c \in CachedOvershoot : s_result = parsed_inventory[c]
        /\ \A c \in CachedOvershoot :
              s_result.wanters_count <= parsed_inventory[c].wanters_count

C21_Witness ==
    /\ s_pc = "ret"
    /\ s_phase = "parsed"
    /\ CachedPriority = {}
    /\ s_result.wanters_count = 25
    /\ \E c \in CachedOvershoot : parsed_inventory[c].wanters_count = 40

\* C22: the parsed phase returns a member of the priority class when that
\* class is not empty, else a member of the overshoot class when that one
\* is not empty, else nothing.
C22_PriorityBeforeOvershoot ==
    [][s_pc = "parsed" /\ s_pc' = "ret" =>
          IF CachedPriority # {}
          THEN \E c \in CachedPriority : s_result' = parsed_inventory[c]
          ELSE IF CachedOvershoot # {}
          THEN \E c \in CachedOvershoot : s_result' = parsed_inventory[c]
          ELSE s_result' = NoEntry]_vars

C22_Witness ==
    /\ s_pc = "ret"
    /\ s_phase = "parsed"
    /\ CachedPriority # {}
    /\ CachedOvershoot # {}
    /\ s_result.wanters_count = 25
    /\ target_wanters = 30

\* the candidates of the call that gave a card: parsed now or taken from a
\* valid cache entry
FoundProbes == {r \in s_probed : r.outcome \in {"live", "cache"}}

\* C23: a probe whose count_wants fails takes its candidate and its attempt
\* of the budget, gives neither result nor alternative nor cache entry, and
\* leaves the search running; a call that finds no card and no eligible
\* cache entry returns None.
C23_FailedProbeSkipped ==
    [][/\ \A r \in s_probed' \ s_probed :
             r.wanters_count < 0 =>
                /\ s_pc' = s_pc
                /\ s_result' = s_result
                /\ best_alternative' = best_alternative
                /\ parsed_inventory' = parsed_inventory
                /\ r.instance_id \notin available_cards'
                /\ s_pc = "unparsed" => cards_checked' = cards_checked + 1
       /\ (/\ s_pc \in {"idle", "unparsed", "cont", "parsed"}
           /\ s_pc' = "ret"
           /\ FoundProbes' = {}
           /\ CachedEligible' = {})
          => s_result' = NoEntry]_vars

C23_Witness ==
    /\ s_pc = "ret"
    /\ s_result = NoEntry
    /\ cards_checked = 2
    /\ \A r \in s_probed : r.outcome = "fail"
    /\ Cardinality(s_probed) = 2

\* the entries of the call's parsed inventory that the saved file lacks
Unflushed == {c \in DOMAIN parsed_inventory : parsed_inventory[c] # parsed_disk[c]}

\* C30: while a call probes, fewer than 5 entries written by its live probes
\* are missing from the saved parsed inventory; once the unparsed phase has
\* returned, none is missing.
C30_FlushBound ==
    /\ s_pc \in {"unparsed", "cont"} => Cardinality(Unflushed) < 5
    /\ s_pc \in {"parsed", "ret"} => Unflushed = {}

C30_Witness ==
    /\ s_pc = "cont"
    /\ cards_parsed_count = 5
    /\ Cardinality({r \in s_probed : r.outcome = "live"}) = 5
    /\ Unflushed = {}

\* the boost pollers and the history pollers that run: the ones the
\* application refers to and the ones it lost the reference to
BoostPollers == Cardinality(orphans)
                + (IF monitor.exists /\ monitor.running THEN 1 ELSE 0)

HistoryPollers == IF history_monitor.exists /\ history_monitor.running
                  THEN 1 ELSE 0

\* C26: when the loop issues the logout of a sleep, no poller the
\* application started is still running, in the first sleep of a run and in
\* every later one.
C26_PollersStoppedAtLogout ==
    pc = "sl_logout" => BoostPollers = 0 /\ HistoryPollers = 0

\* C27: at most one boost poller and at most one history poller run at any
\* time, whatever the number of sleeps.
C27_OnePollerOfAKind ==
    BoostPollers <= 1 /\ HistoryPollers <= 1

\* the collaborators as check_and_refresh_session found them
GuardKept ==
    /\ stats_manager = guard.stats_manager
    /\ history_monitor = guard.history_monitor
    /\ processor = guard.processor
    /\ monitor.exists = guard.monitor.exists
    /\ monitor.running = guard.monitor.running
    /\ monitor.session = guard.monitor.session

SessionSteps == {"loop_top", "lb_fetch", "r_can", "r_cancel", "r_recheck",
                 "r_replace", "r_reload", "offers", "sl_cancel"}

\* C25: every step of the loop that needs the session is taken after a
\* check_and_refresh_session call that returned True.
C25_GuardBeforeSessionSteps ==
    [][pc' # pc /\ pc \in SessionSteps => guard.checked]_vars

\* C28: after Ctrl+C in the completion wait or in the sleep wait the
\* program has ended and no poller is left running.
C28_InterruptStopsPollers ==
    lastEvent = "interrupted" =>
        /\ pc = "exit"
        /\ BoostPollers = 0
        /\ HistoryPollers = 0

\* C29: the loop is left only when the login, the rebuild or the load of
\* the card after a sleep fails, and the run that left the loop does not end
\* as a success.
C29_StopsOnlyOnFailedRecovery ==
    /\ [][pc # "after_loop" /\ pc' = "after_loop" =>
             \/ pc \in {"sl_login", "rc"}
             \/ pc = "r_ret" /\ lctx = "wake"]_vars
    /\ [](lastEvent # "return_0")

\* C29, the part on the loop alone: it is left only on a failed recovery
C29_LoopLeftOnlyOnFailedRecovery ==
    [][pc # "after_loop" /\ pc' = "after_loop" =>
          \/ pc \in {"sl_login", "rc"}
          \/ pc = "r_ret" /\ lctx = "wake"]_vars


(***************************************************************************)
(* load_boost_card and the persisted target.                               *)
(***************************************************************************)
\* the step in which load_boost_card returns to its caller
LoadReturns == pc = "r_ret" /\ rctx = "load" /\ pc' # pc

\* C31: when load_boost_card returns a card, BOOST_CARD_FILE holds that card,
\* which is the replacement's card when check_and_replace_if_needed made a
\* replacement during the load and the fetched card otherwise; the loop
\* after a wake goes on with that same card.  A load that obtains no card
\* (at the fetch) leaves the file as it was.
C31_SnapshotIsLoadedTarget ==
    [][/\ LoadReturns /\ lb_card # NoCard /\ new_card # NoCard
            => file' = new_card
       /\ LoadReturns /\ lb_card # NoCard /\ new_card = NoCard
            => file' = lb_card
       /\ LoadReturns /\ lb_card # NoCard /\ lctx = "wake"
            => current_boost_card' = file' /\ pc' = "loop_top"
       /\ LoadReturns /\ lb_card = NoCard => file' = file
       /\ pc' # pc /\ pc = "lb_fetch" => file' = file]_vars

\* a load after a wake has returned a card and the loop holds the persisted one
C31_Witness ==
    /\ lastEvent = "wake" /\ pc = "loop_top"
    /\ file # NoCard /\ current_boost_card = file


(***************************************************************************)
(* select_best_card: the unparsed phase against the parsed phase.          *)
(***************************************************************************)
\* the call is in select_from_unparsed
InUnparsed == s_pc \in {"unparsed", "cont"}

\* C32: select_from_parsed is reached only with no result and no alternative
\* from select_from_unparsed; when select_from_unparsed ends with an
\* alternative, that alternative is the call's result and the parsed
\* inventory is not consulted, whatever it holds.
C32_ParsedOnlyAfterNothing ==
    [][/\ s_pc' = "parsed" /\ s_pc # "parsed"
            => best_alternative = NoEntry /\ s_result' = NoEntry
       /\ (/\ InUnparsed /\ s_pc' \notin {"unparsed", "cont"}
           /\ s_probed' = s_probed /\ best_alternative # NoEntry)
            => /\ s_pc' = "ret"
               /\ s_result' = best_alternative
               /\ s_phase' = "unparsed"
       /\ s_phase' = "parsed" /\ s_phase # "parsed" => s_pc = "parsed"]_vars

\* an overshoot alternative is returned while the parsed inventory holds an
\* eligible entry of the priority class
C32_Witness ==
    /\ s_pc = "ret"
    /\ s_phase = "unparsed"
    /\ s_result # NoEntry
    /\ s_result.wanters_count > target_wanters
    /\ s_result.wanters_count > 5
    /\ \E c \in CachedPriority : parsed_inventory[c].card_id # s_result.card_id


\* the candidates of the call that gave a card with wanters_count above the
\* target's
Overshoots == {r \in FoundProbes : r.wanters_count > target_wanters}

\* select_from_unparsed returns without a hit: its last step probes nothing,
\* or probes a candidate that is no hit
EndsWithoutHit ==
    /\ InUnparsed
    /\ s_pc' \in {"ret", "parsed"}
    /\ s_probed' = s_probed

\* The part of C33 about demands: while select_from_unparsed runs, every
\* candidate that gave a card has wanters_count > target_wanters (a hit ends
\* the call at once); when it ends without a hit it returns a candidate of
\* the least wanters_count among them, and None only if there is none.
C33_AlternativeIsMinimum ==
    [][/\ InUnparsed => \A r \in FoundProbes : r.wanters_count > target_wanters
       /\ EndsWithoutHit /\ Overshoots # {}
            => /\ s_pc' = "ret"
               /\ \E r \in Overshoots :
                     /\ r.instance_id = s_result'.instance_id
                     /\ r.wanters_count = s_result'.wanters_count
               /\ \A r \in Overshoots :
                     s_result'.wanters_count <= r.wanters_count
       /\ EndsWithoutHit /\ Overshoots = {}
            => s_pc' = "parsed" /\ FoundProbes = {}]_vars

\* C33: as C33_AlternativeIsMinimum, and among candidates of equal demand the
\* one probed first is kept: the alternative names another instance only
\* when a candidate of strictly smaller wanters_count replaces it.
C33_AlternativeIsFirstMinimum ==
    [][/\ InUnparsed => \A r \in FoundProbes : r.wanters_count > target_wanters
       /\ EndsWithoutHit /\ Overshoots # {}
            => /\ s_pc' = "ret"
               /\ \E r \in Overshoots :
                     /\ r.instance_id = s_result'.instance_id
                     /\ r.wanters_count = s_result'.wanters_count
               /\ \A r \in Overshoots :
                     s_result'.wanters_count <= r.wanters_count
       /\ EndsWithoutHit /\ Overshoots = {}
            => s_pc' = "parsed" /\ FoundProbes = {}
       /\ (/\ InUnparsed /\ s_pc' \in {"unparsed", "cont"}
           /\ best_alternative # NoEntry
           /\ best_alternative'.instance_id # best_alternative.instance_id)
            => best_alternative'.wanters_count
                   < best_alternative.wanters_count]_vars


\* the steps of select_from_unparsed against its budget
C34_BudgetSteps ==
    [][/\ s_pc = "unparsed" =>
            /\ cards_checked = Cardinality(s_probed)
            /\ cards_checked <= MAX_CARD_SELECTION_ATTEMPTS
       /\ s_pc = "unparsed" /\ s_probed' # s_probed
            => cards_checked < MAX_CARD_SELECTION_ATTEMPTS
       /\ s_pc = "unparsed" /\ s_pc' = "cont"
            => /\ best_alternative # NoEntry
               /\ available_cards # {}
               /\ cards_checked = MAX_CARD_SELECTION_ATTEMPTS
       /\ (/\ s_pc = "unparsed" /\ s_pc' # s_pc
           /\ cards_checked = MAX_CARD_SELECTION_ATTEMPTS
           /\ best_alternative = NoEntry)
            => /\ s_pc' = "parsed"
               /\ s_result' = NoEntry
               /\ s_probed' = s_probed
               /\ available_cards' = available_cards
               /\ inventory' = inventory
       /\ s_pc = "cont" =>
            /\ best_alternative # NoEntry
            /\ Cardinality(s_probed) >= MAX_CARD_SELECTION_ATTEMPTS
       /\ s_pc = "cont" /\ s_pc' # s_pc
            => \/ available_cards = {}
               \/ /\ s_probed' # s_probed
                  /\ s_result' # NoEntry
                  /\ is_priority(s_result'.wanters_count, target_wanters)]_vars

\* C34: the first loop probes at most MAX_CARD_SELECTION_ATTEMPTS
\* candidates; when it ends at the budget with candidates left and no
\* alternative, select_from_unparsed probes no more and returns None with the
\* remaining candidates still in the inventory; it goes on past the budget
\* only with an alternative and candidates left, and then leaves only by a
\* hit or with no candidate left; and it always returns.
C34_AttemptBudget == C34_BudgetSteps /\ (InUnparsed ~> ~InUnparsed)

\* the budget is used up without hit or alternative and a candidate is left
C34_Witness ==
    /\ s_pc = "parsed"
    /\ cards_checked = MAX_CARD_SELECTION_ATTEMPTS
    /\ best_alternative = NoEntry
    /\ available_cards # {}
    /\ available_cards \subseteq inventory

\* probing has gone on past the budget
C34_WitnessContinued ==
    /\ s_pc = "cont"
    /\ Cardinality(s_probed) > MAX_CARD_SELECTION_ATTEMPTS


(***************************************************************************)
(* What a probe leaves in the inventory and in the parsed inventory.       *)
(***************************************************************************)
\* the candidates taken by the step
Taken == s_probed' \ s_probed

\* the parsed inventory names instance i in the entry of its card
Cached(cache, i) ==
    cache[CardOf(i)] # NoEntry /\ cache[CardOf(i)].instance_id = i

\* The part of C39 about the inventory: a candidate taken for a probe is out
\* of the inventory and of the candidates after the step, whatever the probe
\* gives; a candidate not taken stays in the inventory; and a new entry, or
\* another wanters_count in an entry, comes only from a live probe that
\* answered a count within the ceiling.
C39_TakenLeavesInventory ==
    [][InUnparsed =>
          /\ \A r \in Taken : /\ r.instance_id \in available_cards
                               /\ r.instance_id \notin available_cards'
                               /\ r.instance_id \notin inventory'
          /\ inventory' = inventory \ {r.instance_id : r \in Taken}
          /\ available_cards' = available_cards \ {r.instance_id : r \in Taken}
          /\ available_cards \subseteq inventory
          /\ \A c \in Keys :
                (\/ (parsed_inventory'[c] = NoEntry) # (parsed_inventory[c] = NoEntry)
                 \/ parsed_inventory'[c].wanters_count
                       # parsed_inventory[c].wanters_count)
                => \E r \in Taken : /\ CardOf(r.instance_id) = c
                                    /\ r.outcome = "live"
                                    /\ r.wanters_count >= 0
                                    /\ r.wanters_count <= MAX_WANTERS_ALLOWED]_vars

\* C39: as C39_TakenLeavesInventory, and the parsed inventory is written
\* only by a live probe that answered a count within the ceiling, so that a
\* candidate whose probe failed or went over the ceiling is named neither by
\* the inventory nor by the parsed inventory when the call returns.
C39_ProbeFrame ==
    /\ C39_TakenLeavesInventory
    /\ [][InUnparsed /\ parsed_inventory' # parsed_inventory
             => \E r \in Taken : r.outcome = "live"]_vars
    /\ [](s_pc = "ret" =>
            \A r \in s_probed :
               r.outcome \in {"fail", "over"} =>
                  /\ r.instance_id \notin inventory
                  /\ ~Cached(parsed_inventory, r.instance_id))

\* the parsed phase returns the candidate whose probe of the same call went
\* over the ceiling
C39_StaleEntryReturned ==
    /\ s_pc = "ret"
    /\ s_phase = "parsed"
    /\ \E r \in s_probed : /\ r.outcome = "over"
                           /\ r.instance_id = s_result.instance_id


(***************************************************************************)
(* --dry_run and the requests that change the server's state.              *)
(***************************************************************************)
\* the entries of callLog that are such a request of a replacement:
\* cancel_all_sent_trades and replace_club_card
StateChanging == {"cancel", "replace_ok", "replace_fail"}

\* The part of C40 about the loop's own cancels: with --dry_run neither the
\* sleep nor the timeout of the completion wait cancels the offers.
C40_LoopCancelsGuarded ==
    args.dry_run =>
        /\ \A k \in DOMAIN sleepLog : sleepLog[k] # "cancel"
        /\ lastEvent # "fail_timeout_cancel"

\* C40: with --dry_run no cancel_all_sent_trades and no replace_club_card is
\* issued, in the loop's own steps or in a replacement (policy replacement
\* at the load or in the cycle, forced replacement).
C40_DryRunIssuesNothing ==
    args.dry_run =>
        /\ \A k \in DOMAIN callLog : callLog[k] \notin StateChanging
        /\ \A k \in DOMAIN sleepLog : sleepLog[k] # "cancel"
        /\ lastEvent # "fail_timeout_cancel"


(***************************************************************************)
(* The range of the failure counter.                                       *)
(***************************************************************************)
\* C35: failed_cycles_count stays within 0 .. MAX_FAILED_CYCLES: it grows by
\* one at a time and only from a value below the threshold, because the
\* iteration that starts with the threshold reached goes to the forced
\* replacement or to the sleep, and both reset the counter before the next
\* failed cycle is counted.
C35_CounterRange ==
    /\ [](failed_cycles_count \in 0 .. MAX_FAILED_CYCLES)
    /\ [][/\ failed_cycles_count' > failed_cycles_count
               => /\ failed_cycles_count' = failed_cycles_count + 1
                  /\ failed_cycles_count < MAX_FAILED_CYCLES
          /\ (/\ pc = "loop_top" /\ pc' # pc
              /\ failed_cycles_count = MAX_FAILED_CYCLES)
               => pc' \in {"f_pre", "sl_cancel"}
          /\ pc' # pc /\ pc = "r_ret" /\ rctx = "force"
               => failed_cycles_count' = 0]_vars

\* the threshold is reached and the iteration goes to sleep with it
C35_Witness ==
    /\ failed_cycles_count = MAX_FAILED_CYCLES
    /\ pc = "sl_cancel"


(***************************************************************************)
(* The boost poller's card_changed flag against the loop.                  *)
(***************************************************************************)
\* the loop's step that writes False to a flag that is True
ClearsSetFlag ==
    /\ pc = "r_ret" /\ rctx = "cycle" /\ pc' # pc
    /\ monitor.exists /\ monitor.card_changed

\* C36: when the loop writes False to card_changed while it is True, the
\* change has been acted on, so the failure counter is 0 (it was reset when
\* the flag was seen, and nothing counts a failure between that and the
\* write); and no cycle is counted as failed at the timeout of the
\* completion wait while the flag is True.
C36_NoSignalLost ==
    [][/\ ClearsSetFlag => failed_cycles_count = 0
       /\ (/\ pc = "wait" /\ pc' # pc
           /\ failed_cycles_count' > failed_cycles_count)
            => ~monitor.card_changed]_vars

\* The flag is True at the write without having been acted on
C36_LostAtCycleStart ==
    /\ pc = "r_ret" /\ rctx = "cycle"
    /\ monitor.exists /\ monitor.card_changed
    /\ new_card = NoCard
    /\ failed_cycles_count > 0


(***************************************************************************)
(* The donation quota check before the offers.                             *)
(***************************************************************************)
\* the step that follows the replacement steps of the cycle
AfterReplacementSteps == pc = "r_ret" /\ rctx = "cycle" /\ pc' # pc

\* C37: the offer loop is entered only from the quota check that follows
\* the replacement steps of the iteration, and only when the server still
\* has donations left at that check; when it has none the iteration ends
\* with no offer, and the iteration after it goes to sleep.
C37_OffersAfterQuotaCheck ==
    [][/\ pc' = "offers" /\ pc # "offers"
            => AfterReplacementSteps /\ server.donate > 0
       /\ lastEvent' = "offers" /\ lastEvent # "offers" => pc = "offers"
       /\ AfterReplacementSteps /\ server.donate = 0
            => /\ pc' = "loop_top"
               /\ lastEvent' \in {"policy_ok", "policy_none"}
               /\ offerTarget' = 0
       /\ (/\ pc = "loop_top" /\ pc' # pc
           /\ lastEvent \in {"policy_ok", "policy_none"})
            => pc' = "sl_cancel"]_vars

\* the check after the replacement steps found the quota used up and the
\* iteration has ended without an offer
C37_Witness ==
    /\ pc = "loop_top"
    /\ lastEvent \in {"policy_ok", "policy_none"}
    /\ server.donate = 0
    /\ offerTarget = 0


(***************************************************************************)
(* The rotation of the log file.                                           *)
(***************************************************************************)
\* C38: an emit on a handler that has a stream leaves the handler on the
\* file of the current date with an open stream on that file, and its
\* record is written there: none is written to a closed stream or dropped,
\* at a change of date or after it.
C38_RotatesByDay ==
    [][emitted' = emitted + 1 /\ stream # NoStream
          => /\ baseFilename' = LogPath(today')
             /\ stream' = OpenStream(baseFilename')
             /\ written'[baseFilename'] = written[baseFilename'] + 1
             /\ dropped' = dropped]_vars

\* The part of C38 that holds: the handler's path follows the date at every
\* emit, and while the date is that of the file opened at construction the
\* records are written to it.
C38_PathFollowsDate ==
    [][emitted' = emitted + 1
          => /\ baseFilename' = LogPath(today')
             /\ (baseFilename = LogPath(today') /\ stream = OpenStream(LogPath(1)))
                  => written'[baseFilename'] = written[baseFilename'] + 1]_vars

\* every record after the first change of date has been dropped
C38_AllDroppedAfterMidnight ==
    /\ today = 2
    /\ baseFilename = LogPath(2)
    /\ stream = CloseStream(OpenStream(LogPath(1)))
    /\ written[LogPath(2)] = 0
    /\ dropped >= 2

====
